---- MODULE Spec2Model ----
(***************************************************************************)
(* A model of the Bananagrams crossword engine: the trie dictionary        *)
(* (src/src/dictionary.py), the sparse grid with placement, validation and *)
(* undo (src/src/grid.py) and the backtracking solver (src/src/solver.py). *)
(*                                                                         *)
(* A word is a sequence of one-letter strings.  A Python dict is a         *)
(* sequence of entries in insertion order (Python dicts iterate in         *)
(* insertion order, and get_valid_placements iterates over the cells).     *)
(* A Python object with identity (PlacedWord) carries an id field; two     *)
(* records are the same object iff their ids are equal.                    *)
(***************************************************************************)
EXTENDS Integers, Sequences, FiniteSets, TLC

(***************************************************************************)
(* Bounds of the model.                                                    *)
(***************************************************************************)
\* anchors handed to place_word by the board actions lie in -MaxCoord..MaxCoord
MaxCoord == 1
\* the board actions stop placing when the board holds MaxRecords records
MaxRecords == 3
\* the hands given to solve have at most MaxHand letters
MaxHand == 7
\* find_words_from_letters is called with at most MaxAvail letters
MaxAvail == 3
\* a dictionary is built by at most MaxInserts calls of _insert
MaxInserts == 3

\* the Python value None (a record, so that it compares with records)
None == [id |-> 0]

(***************************************************************************)
(* Letters.  src/src/constants.py                                          *)
(***************************************************************************)
Alphabet ==
  << "A", "B", "C", "D", "E", "F", "G", "H", "I", "J", "K", "L", "M",
     "N", "O", "P", "Q", "R", "S", "T", "U", "V", "W", "X", "Y", "Z" >>

Lowercase ==
  << "a", "b", "c", "d", "e", "f", "g", "h", "i", "j", "k", "l", "m",
     "n", "o", "p", "q", "r", "s", "t", "u", "v", "w", "x", "y", "z" >>

\* position of an upper-case letter in the alphabet (its lexical rank)
Ord(ch) == CHOOSE i \in 1..26 : Alphabet[i] = ch

\* str.upper() on one character
Upper(ch) ==
  IF \E i \in 1..26 : Lowercase[i] = ch
  THEN Alphabet[CHOOSE i \in 1..26 : Lowercase[i] = ch]
  ELSE ch

LETTER_DIFFICULTY ==
  << 0, 3, 3, 2, 0, 4, 2, 3, 0, 8, 5, 1, 3,
     1, 0, 3, 10, 1, 1, 1, 0, 5, 4, 9, 3, 9 >>

(***************************************************************************)
(* Dictionary: a trie.  A node is named by the path that leads to it; the  *)
(* root is the empty path.  children lists the child letters in insertion  *)
(* order.  src/src/dictionary.py                                           *)
(***************************************************************************)
TrieNode == [children |-> << >>, is_word |-> FALSE]

Dictionary == [nodes |-> (<< >> :> TrieNode), word_count |-> 0]

RECURSIVE InsertPath(_, _, _)
\* the loop of _insert: create the missing nodes along word[1..i], i upwards
InsertPath(nodes, word, i) ==
  IF i > Len(word) THEN nodes
  ELSE LET parent == SubSeq(word, 1, i - 1)
           child  == SubSeq(word, 1, i)
       IN IF child \in DOMAIN nodes
          THEN InsertPath(nodes, word, i + 1)
          ELSE InsertPath(
                 [p \in DOMAIN nodes \cup {child} |->
                    IF p = child THEN TrieNode
                    ELSE IF p = parent
                         THEN [nodes[p] EXCEPT
                                 !.children = Append(@, word[i])]
                         ELSE nodes[p]],
                 word, i + 1)

\* _insert without the test of line 39: every call counts a word
_insert_CountsAgain(d, word) ==
  LET nodes == InsertPath(d.nodes, word, 1)
  IN [nodes |-> [nodes EXCEPT ![word].is_word = TRUE],
      word_count |-> d.word_count + 1]

_insert(d, word) ==
  LET nodes == InsertPath(d.nodes, word, 1)
  IN IF ~nodes[word].is_word
     THEN [nodes |-> [nodes EXCEPT ![word].is_word = TRUE],
           word_count |-> d.word_count + 1]
     ELSE [nodes |-> nodes, word_count |-> d.word_count]

RECURSIVE InsertAll(_, _, _)
\* a dictionary built by inserting words[i..] in order (load, the fixtures)
InsertAll(d, words, i) ==
  IF i > Len(words) THEN d
  ELSE InsertAll(_insert(d, words[i]), words, i + 1)

RECURSIVE WalkValid(_, _, _)
WalkValid(d, word, i) ==
  IF i > Len(word) THEN d.nodes[word].is_word
  ELSE IF SubSeq(word, 1, i) \notin DOMAIN d.nodes THEN FALSE
       ELSE WalkValid(d, word, i + 1)

is_valid_word(d, word) ==
  LET up == [i \in 1..Len(word) |-> Upper(word[i])]
  IN WalkValid(d, up, 1)

(***************************************************************************)
(* Counter: a total function from the alphabet to integers (a missing key  *)
(* of a Python Counter reads as 0).                                        *)
(***************************************************************************)
AlphaSet == {Alphabet[i] : i \in 1..26}

\* occurrences of ch in seq
CountIn(seq, ch) == Cardinality({i \in 1..Len(seq) : seq[i] = ch})

Counter(seq) == [ch \in AlphaSet |-> CountIn(seq, ch)]

\* +c : only the positive counts are kept
Positive(c) == [ch \in AlphaSet |-> IF c[ch] > 0 THEN c[ch] ELSE 0]

RECURSIVE SumOver(_, _)
\* the sum of the counts of the letters in keys
SumOver(c, keys) ==
  IF keys = {} THEN 0
  ELSE LET ch == CHOOSE x \in keys : TRUE
       IN c[ch] + SumOver(c, keys \ {ch})

\* sum(c.values()); the letters that count 0 add nothing
CounterSum(c) == SumOver(c, {ch \in AlphaSet : c[ch] # 0})

\* bool(c) for a counter without zero entries
CounterEmpty(c) == \A ch \in AlphaSet : c[ch] = 0

RECURSIVE _search(_, _, _, _, _)
RECURSIVE SearchChildren(_, _, _, _, _, _)
\* the loop of _search over node.children, from child k on
SearchChildren(d, path, remaining, min_length, max_len, k) ==
  LET children == d.nodes[path].children
  IN IF k > Len(children) THEN << >>
     ELSE LET ch == children[k]
              below ==
                IF remaining[ch] > 0
                THEN _search(d, Append(path, ch),
                             [remaining EXCEPT ![ch] = @ - 1],
                             min_length, max_len)
                ELSE << >>
          IN below \o SearchChildren(d, path, remaining, min_length,
                                     max_len, k + 1)

\* the words appended to results by _search(node, remaining, path, depth);
\* the node is the one reached by path and depth is Len(path)
_search(d, path, remaining, min_length, max_len) ==
  LET here == IF d.nodes[path].is_word /\ Len(path) >= min_length
              THEN << path >> ELSE << >>
  IN IF Len(path) >= max_len THEN here
     ELSE here \o SearchChildren(d, path, remaining, min_length, max_len, 1)

\* find_words_from_letters with the letter budget ignored: every letter of
\* the alphabet counts as available
find_words_from_letters_AnyLetters(d, letters, min_length, max_length) ==
  LET max_len == IF max_length # 0 THEN max_length ELSE CounterSum(letters)
  IN _search(d, << >>, [ch \in AlphaSet |-> max_len], min_length, max_len)

\* max_length = 0 stands for the default None (both are falsy in
\* "max_length or sum(letters.values())")
find_words_from_letters(d, letters, min_length, max_length) ==
  LET max_len == IF max_length # 0 THEN max_length ELSE CounterSum(letters)
  IN _search(d, << >>, letters, min_length, max_len)

(***************************************************************************)
(* Candidate ordering.  src/src/solver.py                                  *)
(***************************************************************************)
RECURSIVE DifficultyFrom(_, _)
DifficultyFrom(word, i) ==
  IF i > Len(word) THEN 0
  ELSE (IF word[i] \in AlphaSet THEN LETTER_DIFFICULTY[Ord(word[i])] ELSE 0)
       + DifficultyFrom(word, i + 1)

_word_difficulty(word) == DifficultyFrom(word, 1)

RECURSIVE StrLess(_, _, _)
\* a < b for Python strings of upper-case letters, compared from index i
StrLess(a, b, i) ==
  IF i > Len(a) THEN i <= Len(b)
  ELSE IF i > Len(b) THEN FALSE
       ELSE IF a[i] # b[i] THEN Ord(a[i]) < Ord(b[i])
            ELSE StrLess(a, b, i + 1)

\* key(a) < key(b) for the key (-difficulty, -len, word)
KeyLess(a, b) ==
  LET da == _word_difficulty(a)
      db == _word_difficulty(b)
  IN IF da # db THEN da > db
     ELSE IF Len(a) # Len(b) THEN Len(a) > Len(b)
          ELSE StrLess(a, b, 1)

RECURSIVE InsertSorted(_, _)
\* w put into the sorted sequence s after every element not greater than it
InsertSorted(s, w) ==
  IF s = << >> THEN << w >>
  ELSE IF KeyLess(w, Head(s)) THEN << w >> \o s
       ELSE << Head(s) >> \o InsertSorted(Tail(s), w)

RECURSIVE SortFrom(_, _, _)
SortFrom(words, i, acc) ==
  IF i > Len(words) THEN acc
  ELSE SortFrom(words, i + 1, InsertSorted(acc, words[i]))

\* _sort_candidates that leaves the list in the order it was generated
_sort_candidates_Unsorted(words) == words

\* sorted(words, key=...), a stable sort
_sort_candidates(words) == SortFrom(words, 1, << >>)

(***************************************************************************)
(* Grid.  src/src/grid.py                                                  *)
(* cells is the dict cells: a sequence of entries [pos, ch] in insertion   *)
(* order, at most one entry per position.  placed_words is the list of     *)
(* PlacedWord records.                                                     *)
(***************************************************************************)
Directions == << "ACROSS", "DOWN" >>

\* Direction.value
DirValue(direction) == IF direction = "ACROSS" THEN << 0, 1 >> ELSE << 1, 0 >>

\* pos in self.cells
Has(cells, pos) == \E i \in 1..Len(cells) : cells[i].pos = pos

\* self.cells[pos]
CellAt(cells, pos) == cells[CHOOSE i \in 1..Len(cells) : cells[i].pos = pos].ch

\* self.cells[pos] = ch for a position not in the dict
SetCell(cells, pos, ch) == Append(cells, [pos |-> pos, ch |-> ch])

\* del self.cells[pos]: the other entries keep their order
DelCell(cells, pos) ==
  LET Other(e) == e.pos # pos
  IN SelectSeq(cells, Other)

RECURSIVE DelCells(_, _, _)
\* for pos in positions: del self.cells[pos]
DelCells(cells, positions, i) ==
  IF i > Len(positions) THEN cells
  ELSE DelCells(DelCell(cells, positions[i]), positions, i + 1)

\* the dict as a mapping, without its insertion order
CellMap(cells) == {<< cells[i].pos, cells[i].ch >> : i \in 1..Len(cells)}

CellPositions(cells) == {cells[i].pos : i \in 1..Len(cells)}

is_empty(cells) == Len(cells) = 0

letter_count(cells) == Len(cells)

_word_positions(word, row, col, direction) ==
  LET d == DirValue(direction)
  IN [i \in 1..Len(word) |-> << row + (i - 1) * d[1], col + (i - 1) * d[2] >>]

RECURSIVE RunStart(_, _, _)
\* the first while loop of _get_run: step back while the cell is occupied
RunStart(cells, pos, d) ==
  IF Has(cells, pos) THEN RunStart(cells, << pos[1] - d[1], pos[2] - d[2] >>, d)
  ELSE << pos[1] + d[1], pos[2] + d[2] >>

RECURSIVE RunRead(_, _, _)
\* the second while loop of _get_run
RunRead(cells, pos, d) ==
  IF Has(cells, pos)
  THEN << CellAt(cells, pos) >>
       \o RunRead(cells, << pos[1] + d[1], pos[2] + d[2] >>, d)
  ELSE << >>

_get_run(cells, row, col, direction) ==
  LET d == DirValue(direction)
  IN RunRead(cells, RunStart(cells, << row - d[1], col - d[2] >>, d), d)

\* BeforeAfterFree with the cell after the word left unchecked
BeforeAfterFree_BeforeOnly(cells, word, row, col, direction) ==
  LET d == DirValue(direction)
  IN ~Has(cells, << row - d[1], col - d[2] >>)

\* lines 80-84: the cells before and after the word are both unoccupied
BeforeAfterFree(cells, word, row, col, direction) ==
  LET d == DirValue(direction)
      before == << row - d[1], col - d[2] >>
      after  == << row + Len(word) * d[1], col + Len(word) * d[2] >>
  IN ~(Has(cells, before) \/ Has(cells, after))

\* Rollback with the deletions forgotten
Rollback_Forgotten(cells, cells_added) == cells

\* lines 94-95, 104-105, 117-118: "for pos in cells_added: del self.cells[pos]"
Rollback(cells, cells_added) == DelCells(cells, cells_added, 1)

RECURSIVE WriteLoop(_, _, _, _, _, _)
\* lines 89-100: the loop over the positions from index i on.  On a letter
\* conflict the cells written so far are deleted again (lines 94-95).
WriteLoop(cells, word, positions, i, cells_added, intersections) ==
  IF i > Len(word)
  THEN [conflict |-> FALSE, cells |-> cells, cells_added |-> cells_added,
        intersections |-> intersections]
  ELSE IF Has(cells, positions[i])
       THEN IF CellAt(cells, positions[i]) # word[i]
            THEN [conflict |-> TRUE,
                  cells |-> Rollback(cells, cells_added),
                  cells_added |-> cells_added,
                  intersections |-> intersections]
            ELSE WriteLoop(cells, word, positions, i + 1, cells_added,
                           intersections + 1)
       ELSE WriteLoop(SetCell(cells, positions[i], word[i]), word, positions,
                      i + 1, Append(cells_added, positions[i]), intersections)

\* NoIntersection with the check left out: islands are accepted
NoIntersection_Unchecked(was_empty, intersections) == FALSE

\* line 103: the placement touches no existing letter of a non-empty board
NoIntersection(was_empty, intersections) == ~was_empty /\ intersections = 0

\* PerpInvalid with "len(run) > 2": two-letter runs are never looked up
PerpInvalid_LongRunsOnly(cells, pos, perp_dir, dictionary) ==
  LET run == _get_run(cells, pos[1], pos[2], perp_dir)
  IN Len(run) > 2 /\ ~is_valid_word(dictionary, run)

\* lines 111-115 for one newly placed cell: it has a perpendicular neighbour
\* and the run through it is longer than one letter and not a word
PerpInvalid(cells, pos, perp_dir, dictionary) ==
  LET pd == DirValue(perp_dir)
      has_perp_neighbor ==
        \/ Has(cells, << pos[1] + pd[1], pos[2] + pd[2] >>)
        \/ Has(cells, << pos[1] - pd[1], pos[2] - pd[2] >>)
      run == _get_run(cells, pos[1], pos[2], perp_dir)
  IN has_perp_neighbor /\ Len(run) > 1 /\ ~is_valid_word(dictionary, run)

\* lines 109-119: some newly placed cell makes an invalid perpendicular run
AnyPerpInvalid(cells, cells_added, perp_dir, dictionary) ==
  \E k \in 1..Len(cells_added) :
     PerpInvalid(cells, cells_added[k], perp_dir, dictionary)

PlacedWord(id, word, row, col, direction, cells_added) ==
  [id |-> id, word |-> word, row |-> row, col |-> col,
   direction |-> direction, cells_added |-> cells_added]

\* Grid.place_word.  The result holds the returned value (a PlacedWord or
\* None), the grid after the call and the line of the return statement.
\* id is the identity of the PlacedWord object created at line 121.
place_word(cells, placed_words, word, row, col, direction, dictionary, id) ==
  LET positions == _word_positions(word, row, col, direction)
      perp_dir  == IF direction = "ACROSS" THEN "DOWN" ELSE "ACROSS"
      was_empty == is_empty(cells)
      w == WriteLoop(cells, word, positions, 1, << >>, 0)
      undone == Rollback(w.cells, w.cells_added)
      placed == PlacedWord(id, word, row, col, direction, w.cells_added)
  IN IF ~BeforeAfterFree(cells, word, row, col, direction)
     THEN [placed |-> None, cells |-> cells, placed_words |-> placed_words,
           line |-> 84]
     ELSE IF w.conflict
     THEN [placed |-> None, cells |-> w.cells, placed_words |-> placed_words,
           line |-> 96]
     ELSE IF NoIntersection(was_empty, w.intersections)
     THEN [placed |-> None, cells |-> undone, placed_words |-> placed_words,
           line |-> 106]
     ELSE IF AnyPerpInvalid(w.cells, w.cells_added, perp_dir, dictionary)
     THEN [placed |-> None, cells |-> undone, placed_words |-> placed_words,
           line |-> 119]
     ELSE [placed |-> placed, cells |-> w.cells,
           placed_words |-> Append(placed_words, placed), line |-> 123]

RECURSIVE DelChecked(_, _, _)
\* lines 127-128: del self.cells[pos] raises KeyError on a missing position,
\* which ends remove_word with the earlier deletions done
DelChecked(cells, positions, i) ==
  IF i > Len(positions) THEN [cells |-> cells, raised |-> FALSE]
  ELSE IF ~Has(cells, positions[i]) THEN [cells |-> cells, raised |-> TRUE]
       ELSE DelChecked(DelCell(cells, positions[i]), positions, i + 1)

\* LastIndexOf as list.remove(placed) finds the record: the first one equal
\* to it field by field (the dataclass __eq__), not the object itself
LastIndexOf_ByEquality(placed_words, id, i) ==
  LET SameFields(a, b) ==
        /\ a.word = b.word /\ a.row = b.row /\ a.col = b.col
        /\ a.direction = b.direction /\ a.cells_added = b.cells_added
      own == CHOOSE j \in 1..Len(placed_words) : placed_words[j].id = id
  IN IF \A j \in 1..Len(placed_words) : placed_words[j].id # id THEN 0
     ELSE CHOOSE j \in 1..Len(placed_words) :
            /\ SameFields(placed_words[j], placed_words[own])
            /\ \A h \in 1..(j - 1) :
                  ~SameFields(placed_words[h], placed_words[own])

RECURSIVE LastIndexOf(_, _, _)
\* lines 131-134: the highest index i with placed_words[i] is placed, or 0
LastIndexOf(placed_words, id, i) ==
  IF i < 1 THEN 0
  ELSE IF placed_words[i].id = id THEN i
       ELSE LastIndexOf(placed_words, id, i - 1)

DelIndex(seq, i) ==
  IF i = 0 THEN seq
  ELSE SubSeq(seq, 1, i - 1) \o SubSeq(seq, i + 1, Len(seq))

\* the grid after the remove_word of line 159 has returned r
ProbeUndone(r) ==
  [ok |-> TRUE, cells |-> r.cells, placed_words |-> r.placed_words]

\* remove_word deleting every cell of the word instead of cells_added
remove_word_WholeWord(cells, placed_words, placed) ==
  LET path == _word_positions(placed.word, placed.row, placed.col,
                              placed.direction)
  IN [cells |-> DelCells(cells, path, 1),
      placed_words |-> DelIndex(placed_words,
                         LastIndexOf(placed_words, placed.id,
                                     Len(placed_words))),
      raised |-> FALSE]

\* Grid.remove_word
remove_word(cells, placed_words, placed) ==
  LET del == DelChecked(cells, placed.cells_added, 1)
  IN IF del.raised
     THEN [cells |-> del.cells, placed_words |-> placed_words, raised |-> TRUE]
     ELSE [cells |-> del.cells,
           placed_words |-> DelIndex(placed_words,
                              LastIndexOf(placed_words, placed.id,
                                          Len(placed_words))),
           raised |-> FALSE]

\* lines 157-159: the grid after a speculative placement p, undone again
\* when it was accepted
ProbeUndo(p) ==
  IF p.placed = None
  THEN [ok |-> FALSE, cells |-> p.cells, placed_words |-> p.placed_words]
  ELSE ProbeUndone(remove_word(p.cells, p.placed_words, p.placed))

\* ProbeOne without the remove_word of line 159
ProbeOne_NoUndo(cells, placed_words, word, row, col, direction, dictionary, id) ==
  LET p == place_word(cells, placed_words, word, row, col, direction,
                      dictionary, id)
  IN [ok |-> p.placed # None, cells |-> p.cells,
      placed_words |-> p.placed_words]

\* lines 156-159: one speculative placement, undone again when accepted
ProbeOne(cells, placed_words, word, row, col, direction, dictionary, id) ==
  ProbeUndo(place_word(cells, placed_words, word, row, col, direction,
                       dictionary, id))

\* lines 146-155: the rounds of the three nested loops, numbered from 0 in
\* the order they are run: round k is entry k \div (2 * Len(word)) + 1 of
\* the snapshot list(self.cells.items()), letter index
\* (k \div 2) % Len(word) + 1 and direction k % 2 + 1
ProbeEntry(items, word, k) == items[(k \div (2 * Len(word))) + 1]

ProbeIndex(word, k) == ((k \div 2) % Len(word)) + 1

\* ProbeDirection that tries one axis only
ProbeDirection_AcrossOnly(k) == Directions[1]

ProbeDirection(k) == Directions[(k % 2) + 1]

\* line 149: the rounds in which the letter of the word is the cell's letter
ProbeRounds(items, word) ==
  LET Matches(k) == word[ProbeIndex(word, k)] = ProbeEntry(items, word, k).ch
  IN SelectSeq([n \in 1..(Len(items) * Len(word) * 2) |-> n - 1], Matches)

RECURSIVE ProbeLoop(_, _, _, _, _, _, _, _)
\* lines 157-158: after the speculative placement o of round j, the
\* placement is appended when it was accepted, and the loop goes on
ProbeNext(o, items, word, dictionary, id, j, placements, placement) ==
  ProbeLoop(o.cells, o.placed_words, items, word, dictionary, id, j + 1,
            IF o.ok THEN Append(placements, placement) ELSE placements)

\* lines 151-159 for the rounds from index j of rounds on
ProbeLoop(cells, placed_words, items, word, dictionary, id, j, placements) ==
  IF j > Len(ProbeRounds(items, word))
  THEN [placements |-> placements, cells |-> cells,
        placed_words |-> placed_words]
  ELSE LET k == ProbeRounds(items, word)[j]
           e == ProbeEntry(items, word, k)
           i == ProbeIndex(word, k)
           direction == ProbeDirection(k)
           d == DirValue(direction)
           start_r == e.pos[1] - (i - 1) * d[1]
           start_c == e.pos[2] - (i - 1) * d[2]
       IN ProbeNext(ProbeOne(cells, placed_words, word, start_r, start_c,
                             direction, dictionary, id),
                    items, word, dictionary, id, j, placements,
                    << start_r, start_c, direction >>)

\* Grid.get_valid_placements: the returned list and the grid after the call
get_valid_placements(cells, placed_words, word, dictionary, id) ==
  IF is_empty(cells)
  THEN [placements |-> << << 0, 0, "ACROSS" >> >>, cells |-> cells,
        placed_words |-> placed_words]
  ELSE ProbeLoop(cells, placed_words, cells, word, dictionary, id, 1, << >>)

\* the identity of a newly created object: different from every live one
FreshId(live) == CHOOSE n \in 1..(Cardinality(live) + 1) : n \notin live

RecordIds(placed_words) == {placed_words[i].id : i \in 1..Len(placed_words)}

(***************************************************************************)
(* The dictionary of the board and solver runs: the words of the test      *)
(* fixture small_dict over the letters A, C, H, T, ADD and DAD for the     *)
(* hand of test_addq_solves_fast, and AE and ED for a board with a word    *)
(* that ends in E.                                                         *)
(***************************************************************************)
DictWords ==
  << << "C", "A", "T" >>, << "A", "T" >>, << "T", "A" >>,
     << "A", "H" >>, << "H", "A" >>,
     << "A", "D", "D" >>, << "D", "A", "D" >>,
     << "A", "E" >>, << "E", "D" >> >>

DICT == InsertAll(Dictionary, DictWords, 1)

WordSet == {DictWords[i] : i \in 1..Len(DictWords)}

\* the words the board actions place and probe: dictionary words, as the
\* solver's candidates are
PlaceWords == {<< "C", "A", "T" >>, << "A", "T" >>, << "T", "A" >>}

(***************************************************************************)
(* solve.  src/src/solver.py                                               *)
(***************************************************************************)
\* line 117: the slice all_words[:30]
FirstWordLimit == 30
\* line 54
MaxDepth == 200
\* line 56: the clock is read on entry when iterations is a multiple of 500
EntryCheckEvery == 500
\* line 112: and after a candidate when iterations is a multiple of 1000
LoopCheckEvery == 1000

\* DepthExceeded without the cap
DepthExceeded_Never(depth) == FALSE

\* line 54
DepthExceeded(depth) == depth > MaxDepth

\* EntryCheckDue with the clock read on every call
EntryCheckDue_EveryCall(n) == TRUE

\* line 56, left operand: the n-th _backtrack call reads the clock
EntryCheckDue(n) == n % EntryCheckEvery = 0

\* the letters on the board, in the order of grid.cells.values()
CellLetters(cells) == [i \in 1..Len(cells) |-> cells[i].ch]

\* lines 42-48: letter_counts minus the letters on the board, per letter
\* (Counter.subtract keeps zero and negative counts)
_remaining_letters(cells, letter_counts) ==
  LET on_grid == Counter(CellLetters(cells))
  IN [ch \in AlphaSet |-> letter_counts[ch] - on_grid[ch]]

\* OverBudget with the sanity check left out
OverBudget_Ignored(r) == FALSE

\* line 105: any(v < 0 for v in r.values())
OverBudget(r) == \E ch \in AlphaSet : r[ch] < 0

\* NewBest that never takes a board
NewBest_Never(placed_count, best) == FALSE

\* line 61: the board holds more letters than the best one so far
NewBest(placed_count, best) == placed_count > best

\* AllPlaced one letter early
AllPlaced_Early(placed_count, total_letters) ==
  placed_count + 1 >= total_letters

\* line 65
AllPlaced(placed_count, total_letters) == placed_count = total_letters

\* w in candidates
InList(w, list) == \E i \in 1..Len(list) : list[i] = w

\* lines 89-92: the word uses a letter that is still unplaced
UsesRemaining(w, remaining) ==
  LET wc == Counter(w)
  IN \E c \in AlphaSet :
        /\ remaining[c] > 0
        /\ (IF wc[c] < remaining[c] THEN wc[c] ELSE remaining[c]) > 0

RECURSIVE AddExtra(_, _, _, _)
\* lines 86-94: the loop over extra from index i on
AddExtra(candidates, extra, i, remaining) ==
  IF i > Len(extra) THEN candidates
  ELSE IF ~InList(extra[i], candidates)
          /\ UsesRemaining(extra[i], remaining)
       THEN AddExtra(Append(candidates, extra[i]), extra, i + 1, remaining)
       ELSE AddExtra(candidates, extra, i + 1, remaining)

RECURSIVE Augment(_, _, _)
\* lines 82-94: the loop over grid_unique.  A Python set has no fixed order;
\* the letters are taken in alphabetical order here, and the order cannot be
\* seen once line 96 has sorted the list by a key that ends in the word.
Augment(candidates, grid_unique, remaining) ==
  IF grid_unique = {} THEN candidates
  ELSE LET grid_ch == CHOOSE x \in grid_unique :
                         \A y \in grid_unique : Ord(x) <= Ord(y)
           augmented == [remaining EXCEPT ![grid_ch] = @ + 1]
           extra == find_words_from_letters(DICT, augmented, 2, 0)
       IN IF extra = << >>
          THEN Augment(candidates, grid_unique \ {grid_ch}, remaining)
          ELSE LET added == AddExtra(candidates, extra, 1, remaining)
               IN IF Len(added) = Len(candidates)
                  THEN Augment(candidates, grid_unique \ {grid_ch},
                               remaining)
                  ELSE Augment(added, grid_unique \ {grid_ch}, remaining)

\* lines 72-96: the sorted candidate list of one _backtrack call
Candidates(cells, remaining) ==
  LET remaining_total == CounterSum(remaining)
      found_words == find_words_from_letters(DICT, remaining, 2, 0)
      grid_unique == {cells[i].ch : i \in 1..Len(cells)}
  IN _sort_candidates(
       IF remaining_total <= 4 /\ cells # << >>
       THEN Augment(found_words, grid_unique, remaining)
       ELSE found_words)

\* lines 118-119: the first word needs no more of a letter than the hand has
FitsHand(word, letter_counts) ==
  LET word_counter == Counter(word)
  IN \A ch \in AlphaSet :
        word_counter[ch] > 0 => word_counter[ch] <= letter_counts[ch]

\* line 149
SnapshotKey(pw) == << pw.word, pw.row, pw.col, pw.direction >>

\* _snapshot_grid that copies the record list as it is
_snapshot_grid_NoDedup(cells, placed_words) ==
  [cells |-> cells, placed_words |-> placed_words]

\* _snapshot_grid: a copy of the cells and the records whose key no earlier
\* record has, the record objects themselves (not copies)
_snapshot_grid(cells, placed_words) ==
  LET IndexOf(pw) ==
        CHOOSE i \in 1..Len(placed_words) : placed_words[i].id = pw.id
      First(pw) ==
        \A j \in 1..(IndexOf(pw) - 1) :
           SnapshotKey(placed_words[j]) # SnapshotKey(pw)
  IN [cells |-> cells, placed_words |-> SelectSeq(placed_words, First)]

(***************************************************************************)
(* The strategies of incremental_solve.  src/src/solver.py, lines 207-362  *)
(***************************************************************************)
\* lines 220-223: the words of two or three letters the hand can spell that
\* have new_letter in them, in the order the dictionary search finds them
QuickCandidates(all_letters, new_letter) ==
  LET HasNew(w) == CountIn(w, new_letter) > 0
  IN SelectSeq(find_words_from_letters(DICT, Counter(all_letters), 2, 3),
               HasNew)

\* QuickAccepts for placements that add two cells
QuickAccepts_TwoCells(placed) == Len(placed.cells_added) = 2
\* line 234: _quick_attach keeps a placement that added exactly one cell
QuickAccepts(placed) == Len(placed.cells_added) = 1

\* the tests of lines 182, 189 and 201 when no result counts as a success
Succeeded_Never(r) == FALSE
\* lines 182, 189, 201: a strategy that returned a grid has succeeded
Succeeded(r) == r # None

\* the test of line 199 without its second operand
FullResolveDue_TimeOnly(enough, unplaced_count) == enough
\* line 199: remaining_c >= 3.0 and unplaced_count >= 3, with enough for
\* the first operand
FullResolveDue(enough, unplaced_count) == enough /\ unplaced_count >= 3

\* line 256: the end of range(1, min(4, len(grid.placed_words) + 1))
RemoveLimit(placed_words) ==
  IF Len(placed_words) + 1 < 4 THEN Len(placed_words) + 1 ELSE 4

\* line 261: grid.placed_words[-n_remove:]
LastRecords(placed_words, n_remove) ==
  IF n_remove >= Len(placed_words) THEN placed_words
  ELSE SubSeq(placed_words, Len(placed_words) - n_remove + 1,
              Len(placed_words))

RECURSIVE FreeWords(_, _, _, _, _)
\* lines 265-268: the loop over reversed(removed_words), from index i down.
\* The letters of the cells a record added are read (KeyError for a cell
\* that is not there) and then the record is removed.
FreeWords(cells, placed_words, removed_words, i, freed_letters) ==
  IF i < 1
  THEN [cells |-> cells, placed_words |-> placed_words,
        freed_letters |-> freed_letters, raised |-> FALSE]
  ELSE LET pw == removed_words[i]
           added == pw.cells_added
       IN IF \E k \in 1..Len(added) : ~Has(cells, added[k])
          THEN [cells |-> cells, placed_words |-> placed_words,
                freed_letters |-> freed_letters, raised |-> TRUE]
          ELSE LET r == remove_word(cells, placed_words, pw)
                   freed == freed_letters
                              \o [k \in 1..Len(added) |-> CellAt(cells, added[k])]
               IN IF r.raised
                  THEN [cells |-> r.cells, placed_words |-> r.placed_words,
                        freed_letters |-> freed, raised |-> TRUE]
                  ELSE FreeWords(r.cells, r.placed_words, removed_words,
                                 i - 1, freed)

\* RestoreGrid that leaves the grid as the search left it
RestoreGrid_NotRestored(cells, placed_words, snapshot) == [cells |-> cells, placed_words |-> placed_words]
\* lines 285-286: the grid takes the cells and the records of the snapshot
RestoreGrid(cells, placed_words, snapshot) == snapshot

RECURSIVE UseCells(_, _, _, _)
\* lines 330-333: the letters of the cells one record added are taken from
\* rem, from cell k on
UseCells(rem, cells, cells_added, k) ==
  IF k > Len(cells_added) THEN rem
  ELSE IF Has(cells, cells_added[k])
          /\ rem[CellAt(cells, cells_added[k])] > 0
       THEN UseCells([rem EXCEPT ![CellAt(cells, cells_added[k])] = @ - 1],
                     cells, cells_added, k + 1)
       ELSE UseCells(rem, cells, cells_added, k + 1)

RECURSIVE UseRecords(_, _, _, _, _)
\* lines 327-333: the loop over grid.placed_words, from record i on
UseRecords(rem, cells, placed_words, initial_words, i) ==
  IF i > Len(placed_words) THEN rem
  ELSE IF placed_words[i].id \in initial_words
       THEN UseRecords(rem, cells, placed_words, initial_words, i + 1)
       ELSE UseRecords(UseCells(rem, cells, placed_words[i].cells_added, 1),
                       cells, placed_words, initial_words, i + 1)

\* _get_remaining that counts the cells of every record of the grid, those
\* of the words that were there at the call as well
_get_remaining_CountsAllRecords(cells, placed_words, budget, initial_words) ==
  Positive(UseRecords(budget, cells, placed_words, {}, 1))

\* _get_remaining of _mini_backtrack: the budget less the letters of the
\* cells added by the records placed since the call
_get_remaining(cells, placed_words, budget, initial_words) ==
  Positive(UseRecords(budget, cells, placed_words, initial_words, 1))

(***************************************************************************)
(* State.                                                                  *)
(*   cells, placed_words  the Grid the operations work on                  *)
(*   op      the last Grid operation: "init", "place", "remove", "probe"   *)
(*   ret     what it returned (place), or the record it was given (remove) *)
(*   before  the grid before the last place_word or get_valid_placements   *)
(*   found   the list returned by the last get_valid_placements            *)
(* and of a run of solve, which works on the same Grid:                    *)
(*   pc           where solve is: "idle" (no run), "start", "first" (at    *)
(*                the loop of line 117), "enter" (a _backtrack call is to  *)
(*                begin), "loop" (in the loops of lines 98-113), "ret" (a  *)
(*                _backtrack call has returned), "finish" (line 131),      *)
(*                "done" (solve has returned), "raised" (an exception)     *)
(*   line         the line of solve reached by the last step               *)
(*   letters      the hand                                                 *)
(*   all_words, fw   the sorted word list and the index of first_word      *)
(*   stack        the active _backtrack calls, the innermost last; of each *)
(*                its depth, candidates, the index ci of word, placements, *)
(*                the index pi of the placement, placed, and entry, the    *)
(*                cells and the number of records when the call was made   *)
(*   retval       the value the last _backtrack call returned              *)
(*   first_placed the record placed of line 122                            *)
(*   best_grid, best_placed, iterations   the locals of these names        *)
(*   expired      time.time() - start_time > timeout                       *)
(*   result       the value solve returned                                 *)
(* and of a run of incremental_solve, which works on the same Grid, keeps  *)
(* the calls of _bt on the same stack, and has all_letters in letters:     *)
(*   incr         the locals of incremental_solve and of its strategies    *)
(*                (see NoIncr)                                             *)
(***************************************************************************)
VARIABLES cells, placed_words, op, ret, before, found,
          pc, line, letters, all_words, fw, stack, retval, first_placed,
          best_grid, best_placed, iterations, expired, result, incr

\* the variables of the board actions
gvars == << op, ret, before, found >>

\* the variables a run of solve leaves alone
ovars == << gvars, incr >>

\* the variables of solve
svars == << pc, line, letters, all_words, fw, stack, retval, first_placed,
           best_grid, best_placed, iterations, expired, result >>

vars == << cells, placed_words, gvars, svars, incr >>

GridOf(c, pw) == [cells |-> c, placed_words |-> pw]

Coords == (0 - MaxCoord)..MaxCoord

\* no run of incremental_solve:
\*   ipc          where the run is: "idle" (no run), "call", "qa" (at the
\*                loop of line 225), "qa_place" (at the loop of line 229),
\*                "after_qa" (_quick_attach has returned), "pr_loop" (at
\*                the loop of line 256), "bt_enter" (a _bt call is to
\*                begin), "bt_loop" (in the loops of lines 346-359),
\*                "bt_ret" (a _bt call has returned), "after_pr"
\*                (_partial_restructure has returned), "full" (solve is
\*                running for _full_resolve), "returned", "raised"
\*   new_letter   the argument of this name
\*   input        the board incremental_solve was called with
\*   held         the grid of incremental_solve while solve builds its own
\*   n_remove, n_limit   the loop variable of line 256 and the end of its
\*                range
\*   snapshot     the local of line 260
\*   letters_to_place   the argument of this name of _mini_backtrack
\*   initial_words   the ids of line 323
\*   result       what the last strategy returned
\*   started      the strategies called so far
\*   log          the strategies that have returned, each with its result
\*                and whether its budget had run out by then
\*   time_left    remaining_c >= 3.0, as line 199 found it
\*   strategy, out   the name and the grid incremental_solve returned
NoIncr ==
  [ipc |-> "idle", new_letter |-> "", input |-> GridOf(<< >>, << >>),
   held |-> GridOf(<< >>, << >>), n_remove |-> 0, n_limit |-> 0,
   snapshot |-> GridOf(<< >>, << >>), letters_to_place |-> << >>,
   initial_words |-> {}, result |-> None, started |-> << >>, log |-> << >>,
   time_left |-> FALSE, strategy |-> "", out |-> None]

\* a new Grid and the locals of a solve that has not come to line 36 yet
Fresh ==
  /\ cells = << >>
  /\ placed_words = << >>
  /\ op = "init"
  /\ ret = None
  /\ before = None
  /\ found = << >>
  /\ line = 0
  /\ all_words = << >>
  /\ fw = 0
  /\ stack = << >>
  /\ retval = FALSE
  /\ first_placed = None
  /\ best_grid = None
  /\ best_placed = 0
  /\ iterations = 0
  /\ expired = FALSE
  /\ result = None
  /\ incr = NoIncr

Init ==
  /\ Fresh
  /\ pc = "idle"
  /\ letters = << >>

\* grid.place_word(word, row, col, direction, dictionary).  The board is
\* unbounded and has no fixed origin, so the first word is put at the origin
\* (where the solver puts it) and the later anchors range around it.
Place(word, row, col, direction) ==
  /\ Len(placed_words) < MaxRecords
  /\ is_empty(cells) => row = 0 /\ col = 0
  /\ \E p \in {place_word(cells, placed_words, word, row, col, direction,
                          DICT, FreshId(RecordIds(placed_words)))} :
        /\ cells' = p.cells
        /\ placed_words' = p.placed_words
        /\ op' = "place"
        /\ ret' = [placed |-> p.placed, line |-> p.line]
        /\ before' = GridOf(cells, placed_words)
        /\ found' = << >>
        /\ UNCHANGED << svars, incr >>

\* grid.remove_word(placed) for the record at index i
Remove(i) ==
  /\ \E r \in {remove_word(cells, placed_words, placed_words[i])} :
        /\ cells' = r.cells
        /\ placed_words' = r.placed_words
        /\ op' = "remove"
        /\ ret' = [placed |-> placed_words[i], line |-> 0]
        /\ before' = None
        /\ found' = << >>
        /\ UNCHANGED << svars, incr >>

\* the undo of backtracking: remove_word on the most recent record
RemoveLast ==
  /\ placed_words # << >>
  /\ Remove(Len(placed_words))

\* grid.get_valid_placements(word, dictionary)
Probe(word) ==
  /\ \E g \in {get_valid_placements(cells, placed_words, word, DICT,
                                    FreshId(RecordIds(placed_words)))} :
        /\ cells' = g.cells
        /\ placed_words' = g.placed_words
        /\ op' = "probe"
        /\ ret' = None
        /\ before' = GridOf(cells, placed_words)
        /\ found' = g.placements
        /\ UNCHANGED << svars, incr >>

PlaceAny ==
  \E word \in PlaceWords, row \in Coords, col \in Coords,
     k \in 1..Len(Directions) : Place(word, row, col, Directions[k])

ProbeAny == \E word \in PlaceWords : Probe(word)

Next == PlaceAny \/ RemoveLast \/ ProbeAny

Spec == Init /\ [][Next]_vars

\* the same board where remove_word is also called with a record that has a
\* twin in the sequence (same word, anchor and axis), whichever of the two
SameSpot(a, b) ==
  /\ a.id # b.id
  /\ a.word = b.word /\ a.row = b.row /\ a.col = b.col
  /\ a.direction = b.direction

RemoveTwin ==
  \E i \in 1..Len(placed_words) :
     /\ \E j \in 1..Len(placed_words) :
           SameSpot(placed_words[i], placed_words[j])
     /\ Remove(i)

\* in the runs with twins every word is anchored at the origin
PlaceTwin ==
  \E word \in PlaceWords, k \in 1..Len(Directions) :
     Place(word, 0, 0, Directions[k])

NextTwin == PlaceTwin \/ RemoveLast \/ RemoveTwin

SpecTwin == Init /\ [][NextTwin]_vars

\* the boards as place_word and remove_word make them, without the probes
\* (which leave every board as it is)
NextBoard == PlaceAny \/ RemoveLast

SpecBoard == Init /\ [][NextBoard]_vars

(***************************************************************************)
(* A run of solve(letters, DICT, timeout), one step at a time.             *)
(***************************************************************************)
\* hands on which the search of solve comes to an end within a few thousand
\* steps (on others, AAAH for one, it runs for hours); on AAACTTT the 500th
\* call of _backtrack is one that reads the clock (line 56), on AAACHTT the
\* 1000th call is the last one of a candidate (line 112)
HandPool ==
  << << >>, << "A" >>, << "C", "T" >>, << "C", "C", "H" >>, << "A", "H" >>,
     << "A", "T" >>, << "A", "C", "T" >>, << "A", "H", "T" >>,
     << "A", "C", "H" >>, << "A", "A", "H" >>, << "A", "T", "T" >>,
     << "A", "D", "D", "Q" >>,
     << "A", "A", "C", "T" >>, << "A", "C", "H", "T" >>,
     << "A", "C", "C", "T" >>, << "A", "A", "H", "T" >>,
     << "A", "C", "C", "H", "T" >>, << "A", "A", "C", "H", "T" >>,
     << "A", "C", "C", "T", "T" >>, << "A", "A", "H", "T", "T" >>,
     << "A", "A", "C", "C", "H", "T" >>, << "A", "A", "C", "H", "T", "T" >>,
     << "A", "C", "C", "C", "H", "T" >>, << "C", "C", "H", "H", "T", "T" >>,
     << "A", "C", "C", "C", "C", "C", "H" >>,
     << "A", "A", "A", "C", "T", "T", "T" >>,
     << "A", "A", "A", "C", "H", "T", "T" >>,
     << "A", "C", "C", "C", "C", "H", "T" >>,
     << "A", "C", "C", "C", "C", "C", "C", "H" >>,
     << "A", "C", "C", "C", "C", "C", "H", "T" >>,
     << "A", "A", "C", "C", "C", "C", "C", "T" >> >>

Hands == {HandPool[i] : i \in {j \in 1..Len(HandPool) :
                                  Len(HandPool[j]) <= MaxHand}}

InitSolve ==
  /\ Fresh
  /\ pc = "start"
  /\ letters \in Hands

letter_counts == Counter(letters)

total_letters == Len(letters)

\* the records that exist: those of the grid, of the best snapshot, and of
\* the snapshot and the grid incremental_solve holds
LiveIds ==
  RecordIds(placed_words)
     \cup (IF best_grid = None THEN {} ELSE RecordIds(best_grid.placed_words))
     \cup RecordIds(incr.snapshot.placed_words)
     \cup RecordIds(incr.held.placed_words)

\* the locals of a _backtrack call that has not run yet, and of the grid the
\* call is entered with the cells and the number of records
NewFrame(depth, c, pw) ==
  [depth |-> depth, candidates |-> << >>, ci |-> 0, placements |-> << >>,
   pi |-> 0, placed |-> None,
   entry |-> [cells |-> c, count |-> Len(pw)]]

Top == stack[Len(stack)]

SetTop(f) == [stack EXCEPT ![Len(stack)] = f]

\* lines 98-99: word becomes candidates[ci] and its placements are looked up;
\* past the last candidate the loop ends.  The frame and the grid afterwards.
BeginCandidate(f, ci) ==
  IF ci > Len(f.candidates)
  THEN [frame |-> [f EXCEPT !.ci = ci, !.placements = << >>, !.pi = 1],
        cells |-> cells, placed_words |-> placed_words]
  ELSE LET g == get_valid_placements(cells, placed_words, f.candidates[ci],
                                     DICT, FreshId(LiveIds))
       IN [frame |-> [f EXCEPT !.ci = ci, !.placements = g.placements,
                               !.pi = 1],
           cells |-> g.cells, placed_words |-> g.placed_words]

\* a return statement of _backtrack
Return(value, at) ==
  /\ pc' = "ret"
  /\ retval' = value
  /\ line' = at

\* lines 24-40
SolveBegin ==
  /\ pc = "start"
  /\ \E aw \in {_sort_candidates(
                  find_words_from_letters(DICT, letter_counts, 2, 0))} :
        IF aw = << >>
        THEN /\ pc' = "done"
             /\ line' = 32
             /\ result' = None
             /\ UNCHANGED << all_words, fw >>
        ELSE /\ pc' = "first"
             /\ line' = 40
             /\ all_words' = aw
             /\ fw' = 1
             /\ UNCHANGED result
  /\ UNCHANGED << cells, placed_words, ovars, letters, stack, retval,
                  first_placed, best_grid, best_placed, iterations, expired >>

\* the clock passes the timeout
TimePasses ==
  /\ pc \in {"first", "enter", "loop", "ret", "finish"}
  /\ ~expired
  /\ expired' = TRUE
  /\ UNCHANGED << cells, placed_words, ovars, pc, line, letters, all_words,
                  fw, stack, retval, first_placed, best_grid, best_placed,
                  iterations, result >>

\* lines 117-129: one round of the loop over all_words[:30], up to the call
\* of _backtrack or to the end of the round
FirstWord ==
  /\ pc = "first"
  /\ IF fw > Len(all_words) \/ fw > FirstWordLimit
     THEN /\ pc' = "finish"
          /\ line' = 117
          /\ UNCHANGED << cells, placed_words, fw, stack, first_placed >>
     ELSE IF ~FitsHand(all_words[fw], letter_counts)
     THEN /\ fw' = fw + 1
          /\ line' = 120
          /\ UNCHANGED << cells, placed_words, pc, stack, first_placed >>
     ELSE \E p \in {place_word(cells, placed_words, all_words[fw], 0, 0,
                               "ACROSS", DICT, FreshId(LiveIds))} :
             /\ cells' = p.cells
             /\ placed_words' = p.placed_words
             /\ IF p.placed # None
                THEN /\ first_placed' = p.placed
                     /\ stack' = << NewFrame(0, p.cells, p.placed_words) >>
                     /\ pc' = "enter"
                     /\ line' = 124
                     /\ UNCHANGED fw
                ELSE IF expired
                THEN /\ pc' = "finish"
                     /\ line' = 129
                     /\ UNCHANGED << fw, stack, first_placed >>
                ELSE /\ fw' = fw + 1
                     /\ line' = 128
                     /\ UNCHANGED << pc, stack, first_placed >>
  /\ UNCHANGED << ovars, letters, all_words, retval, best_grid, best_placed,
                  iterations, expired, result >>

\* lines 51-96: a _backtrack call from its entry to the head of the loop of
\* line 98, or to one of the return statements before it
BtEnter ==
  /\ pc = "enter"
  /\ iterations' = iterations + 1
  /\ IF DepthExceeded(Top.depth)
     THEN /\ Return(FALSE, 55)
          /\ UNCHANGED << cells, placed_words, stack, best_grid, best_placed >>
     ELSE IF EntryCheckDue(iterations + 1) /\ expired
     THEN /\ Return(FALSE, 57)
          /\ UNCHANGED << cells, placed_words, stack, best_grid, best_placed >>
     ELSE
       /\ IF NewBest(letter_count(cells), best_placed)
          THEN /\ best_placed' = letter_count(cells)
               /\ best_grid' = _snapshot_grid(cells, placed_words)
          ELSE UNCHANGED << best_grid, best_placed >>
       /\ IF AllPlaced(letter_count(cells), total_letters)
          THEN /\ Return(TRUE, 66)
               /\ UNCHANGED << cells, placed_words, stack >>
          ELSE \E remaining \in
                    {Positive(_remaining_letters(cells, letter_counts))} :
                 IF CounterEmpty(remaining)
                 THEN /\ Return(FALSE, 70)
                      /\ UNCHANGED << cells, placed_words, stack >>
                 ELSE \E b \in {BeginCandidate(
                                  [Top EXCEPT !.candidates =
                                                Candidates(cells, remaining)],
                                  1)} :
                         /\ stack' = SetTop(b.frame)
                         /\ cells' = b.cells
                         /\ placed_words' = b.placed_words
                         /\ pc' = "loop"
                         /\ line' = 98
                         /\ UNCHANGED retval
  /\ UNCHANGED << ovars, letters, all_words, fw, first_placed, expired,
                  result >>

\* lines 100-110: one round of the loop over placements, up to the recursive
\* call or to the end of the round
TryPlacement ==
  /\ pc = "loop"
  /\ Top.ci <= Len(Top.candidates)
  /\ Top.pi <= Len(Top.placements)
  /\ \E p \in {place_word(cells, placed_words, Top.candidates[Top.ci],
                          Top.placements[Top.pi][1], Top.placements[Top.pi][2],
                          Top.placements[Top.pi][3], DICT,
                          FreshId(LiveIds))} :
        IF p.placed = None
        THEN /\ cells' = p.cells
             /\ placed_words' = p.placed_words
             /\ stack' = SetTop([Top EXCEPT !.pi = @ + 1])
             /\ line' = 102
             /\ UNCHANGED pc
        ELSE IF OverBudget(_remaining_letters(p.cells, letter_counts))
        THEN \E r \in {remove_word(p.cells, p.placed_words, p.placed)} :
                /\ cells' = r.cells
                /\ placed_words' = r.placed_words
                /\ stack' = SetTop([Top EXCEPT !.pi = @ + 1])
                /\ line' = 107
                /\ pc' = IF r.raised THEN "raised" ELSE pc
        ELSE /\ cells' = p.cells
             /\ placed_words' = p.placed_words
             /\ stack' = Append(SetTop([Top EXCEPT !.placed = p.placed]),
                                NewFrame(Top.depth + 1, p.cells,
                                         p.placed_words))
             /\ line' = 108
             /\ pc' = "enter"
  /\ UNCHANGED << ovars, letters, all_words, fw, retval, first_placed,
                  best_grid, best_placed, iterations, expired, result >>

\* lines 112-113 and 98-99: the placements of a candidate are used up
NextCandidate ==
  /\ pc = "loop"
  /\ Top.ci <= Len(Top.candidates)
  /\ Top.pi > Len(Top.placements)
  /\ IF iterations % LoopCheckEvery = 0 /\ expired
     THEN /\ Return(FALSE, 113)
          /\ UNCHANGED << cells, placed_words, stack >>
     ELSE \E b \in {BeginCandidate(Top, Top.ci + 1)} :
             /\ stack' = SetTop(b.frame)
             /\ cells' = b.cells
             /\ placed_words' = b.placed_words
             /\ line' = 98
             /\ UNCHANGED << pc, retval >>
  /\ UNCHANGED << ovars, letters, all_words, fw, first_placed, best_grid,
                  best_placed, iterations, expired, result >>

\* line 115: the candidates are used up
Exhausted ==
  /\ pc = "loop"
  /\ Top.ci > Len(Top.candidates)
  /\ Return(FALSE, 115)
  /\ UNCHANGED << cells, placed_words, ovars, letters, all_words, fw, stack,
                  first_placed, best_grid, best_placed, iterations, expired,
                  result >>

\* lines 108-110: a recursive call has returned to the _backtrack call
\* that made it
ReturnToCaller ==
  /\ pc = "ret"
  /\ Len(stack) > 1
  /\ \E caller \in {stack[Len(stack) - 1]} :
        IF retval
        THEN /\ stack' = SubSeq(stack, 1, Len(stack) - 1)
             /\ line' = 109
             /\ UNCHANGED << cells, placed_words, pc >>
        ELSE \E r \in {remove_word(cells, placed_words, caller.placed)} :
                /\ cells' = r.cells
                /\ placed_words' = r.placed_words
                /\ stack' = Append(SubSeq(stack, 1, Len(stack) - 2),
                                   [caller EXCEPT !.pi = @ + 1])
                /\ line' = 110
                /\ pc' = IF r.raised THEN "raised" ELSE "loop"
  /\ UNCHANGED << ovars, letters, all_words, fw, retval, first_placed,
                  best_grid, best_placed, iterations, expired, result >>

\* lines 124-129: the outermost _backtrack call has returned to solve
ReturnToSolve ==
  /\ pc = "ret"
  /\ Len(stack) = 1
  /\ stack' = << >>
  /\ IF retval
     THEN /\ result' = _snapshot_grid(cells, placed_words)
          /\ pc' = "done"
          /\ line' = 125
          /\ UNCHANGED << cells, placed_words, fw >>
     ELSE \E r \in {remove_word(cells, placed_words, first_placed)} :
             /\ cells' = r.cells
             /\ placed_words' = r.placed_words
             /\ UNCHANGED result
             /\ IF r.raised
                THEN /\ pc' = "raised"
                     /\ line' = 126
                     /\ UNCHANGED fw
                ELSE IF expired
                THEN /\ pc' = "finish"
                     /\ line' = 129
                     /\ UNCHANGED fw
                ELSE /\ pc' = "first"
                     /\ line' = 128
                     /\ fw' = fw + 1
  /\ UNCHANGED << ovars, letters, all_words, retval, first_placed, best_grid,
                  best_placed, iterations, expired >>

\* lines 131-139
Finish ==
  /\ pc = "finish"
  /\ pc' = "done"
  /\ IF best_grid # None
     THEN result' = best_grid /\ line' = 137
     ELSE result' = None /\ line' = 139
  /\ UNCHANGED << cells, placed_words, ovars, letters, all_words, fw, stack,
                  retval, first_placed, best_grid, best_placed, iterations,
                  expired >>

NextSolve ==
  \/ SolveBegin
  \/ TimePasses
  \/ FirstWord
  \/ BtEnter
  \/ TryPlacement
  \/ NextCandidate
  \/ Exhausted
  \/ ReturnToCaller
  \/ ReturnToSolve
  \/ Finish

SpecSolve == InitSolve /\ [][NextSolve]_vars

\* the steps solve itself takes (every step but the passing of time)
SolveStep ==
  \/ SolveBegin
  \/ FirstWord
  \/ BtEnter
  \/ TryPlacement
  \/ NextCandidate
  \/ Exhausted
  \/ ReturnToCaller
  \/ ReturnToSolve
  \/ Finish

(***************************************************************************)
(* A run of incremental_solve(grid, new_letter, all_letters, DICT,         *)
(* timeout), one step at a time.  src/src/solver.py, lines 161-371         *)
(***************************************************************************)
\* the calls of _bt that may be active at once: the recursion limit of the
\* interpreter, scaled down
MaxNest == 3

\* the calls that are run: the words of the board in the order place_word
\* put them there, the new letter, and the hand with the new letter in it
\* (as main.py and web/app.py pass it)
IncrPool ==
  << [board |-> << << << "C", "A", "T" >>, 0, 0, "ACROSS" >> >>,
      new_letter |-> "A", all_letters |-> << "C", "A", "T", "A" >>],
     [board |-> << << << "C", "A", "T" >>, 0, 0, "ACROSS" >> >>,
      new_letter |-> "H", all_letters |-> << "C", "A", "T", "H" >>],
     [board |-> << << << "A", "T" >>, 0, 0, "ACROSS" >> >>,
      new_letter |-> "C", all_letters |-> << "A", "T", "C" >>],
     [board |-> << << << "A", "E" >>, 0, 0, "ACROSS" >> >>,
      new_letter |-> "D", all_letters |-> << "A", "E", "D" >>],
     [board |-> << << << "A", "E" >>, 0, 0, "ACROSS" >>,
                   << << "A", "E" >>, 0 - 1, 1, "DOWN" >> >>,
      new_letter |-> "D", all_letters |-> << "A", "E", "A", "D" >>],
     [board |-> << << << "A", "T" >>, 0, 0, "ACROSS" >>,
                   << << "T", "A" >>, 0, 1, "DOWN" >> >>,
      new_letter |-> "T", all_letters |-> << "A", "T", "A", "T" >>],
     [board |-> << << << "A", "T" >>, 0, 0, "ACROSS" >> >>,
      new_letter |-> "H", all_letters |-> << "A", "T", "C", "C", "H" >>],
     [board |-> << << << "A", "E" >>, 0, 0, "ACROSS" >> >>,
      new_letter |-> "D", all_letters |-> << "A", "E", "D", "Q", "Q" >>],
     [board |-> << >>,
      new_letter |-> "Q", all_letters |-> << "C", "C", "Q" >>],
     [board |-> << >>,
      new_letter |-> "T", all_letters |-> << "A", "T" >>],
     [board |-> << << << "C", "A", "T" >>, 0, 0, "ACROSS" >>,
                   << << "A", "H" >>, 0, 1, "DOWN" >>,
                   << << "H", "A" >>, 1, 1, "ACROSS" >> >>,
      new_letter |-> "Q",
      all_letters |-> << "C", "A", "T", "H", "A", "Q" >>],
     [board |-> << << << "A", "H" >>, 0, 0, "ACROSS" >> >>,
      new_letter |-> "A", all_letters |-> << "A", "H", "T", "A" >>],
     [board |-> << << << "A", "T" >>, 0, 0, "ACROSS" >> >>,
      new_letter |-> "Q", all_letters |-> << "A", "T", "Q", "Q", "Q" >>] >>

RECURSIVE BuildBoard(_, _, _)
\* the grid after place_word has put the words of a board there, from
\* word i on
BuildBoard(board, i, g) ==
  IF i > Len(board) THEN g
  ELSE LET p == place_word(g.cells, g.placed_words, board[i][1], board[i][2],
                           board[i][3], board[i][4], DICT,
                           FreshId(RecordIds(g.placed_words)))
       IN BuildBoard(board, i + 1, GridOf(p.cells, p.placed_words))

\* the state at the call of incremental_solve
InitIncr ==
  \E k \in 1..Len(IncrPool) :
     \E g \in {BuildBoard(IncrPool[k].board, 1, GridOf(<< >>, << >>))} :
        /\ cells = g.cells
        /\ placed_words = g.placed_words
        /\ op = "init"
        /\ ret = None
        /\ before = None
        /\ found = << >>
        /\ pc = "idle"
        /\ line = 0
        /\ letters = IncrPool[k].all_letters
        /\ all_words = << >>
        /\ fw = 0
        /\ stack = << >>
        /\ retval = FALSE
        /\ first_placed = None
        /\ best_grid = None
        /\ best_placed = 0
        /\ iterations = 0
        /\ expired = FALSE
        /\ result = None
        /\ incr = [NoIncr EXCEPT !.ipc = "call",
                                 !.new_letter = IncrPool[k].new_letter,
                                 !.input = g]

\* the variables of solve that the strategies before the full re-solve
\* leave alone
sidle == << pc, letters, all_words, fw, first_placed, best_grid, best_placed,
           iterations, result >>

\* a strategy begins: its name is noted and its clock starts
Started(name) == [incr EXCEPT !.started = Append(@, name)]

\* a strategy has returned r, with its budget used up or not
Returned(i, name, r) ==
  [i EXCEPT !.result = r,
            !.log = Append(@, [strategy |-> name, result |-> r,
                               timed_out |-> expired])]

\* a return statement of incremental_solve
IncrReturn(i, grid, name) ==
  [i EXCEPT !.ipc = "returned", !.strategy = name, !.out = grid]

\* the clock passes the budget of the strategy that is running
BudgetPasses ==
  /\ incr.ipc \in {"qa", "qa_place", "pr_loop", "bt_enter", "bt_loop",
                   "bt_ret"}
  /\ ~expired
  /\ expired' = TRUE
  /\ UNCHANGED << cells, placed_words, gvars, sidle, line, stack, retval,
                  incr >>

\* lines 174-181 and 216-223: incremental_solve calls _quick_attach, which
\* comes to the head of its loop
IncrCall ==
  /\ incr.ipc = "call"
  /\ incr' = [Started("quick_attach") EXCEPT !.ipc = "qa"]
  /\ stack' = << [NewFrame(0, cells, placed_words) EXCEPT
                    !.candidates = QuickCandidates(letters, incr.new_letter),
                    !.ci = 1, !.pi = 1] >>
  /\ expired' = FALSE
  /\ line' = 223
  /\ UNCHANGED << cells, placed_words, gvars, sidle, retval >>

\* lines 225-228 and 238: the head of the loop over candidates, up to the
\* placements of the next word or to the return of None
QuickWord ==
  /\ incr.ipc = "qa"
  /\ IF Top.ci > Len(Top.candidates) \/ expired
     THEN /\ incr' = [Returned(incr, "quick_attach", None)
                        EXCEPT !.ipc = "after_qa"]
          /\ stack' = << >>
          /\ line' = 238
          /\ UNCHANGED << cells, placed_words >>
     ELSE \E b \in {BeginCandidate(Top, Top.ci)} :
             /\ cells' = b.cells
             /\ placed_words' = b.placed_words
             /\ line' = 228
             /\ IF b.frame.placements = << >>
                THEN /\ stack' = SetTop([b.frame EXCEPT !.ci = @ + 1])
                     /\ UNCHANGED incr
                ELSE /\ stack' = SetTop(b.frame)
                     /\ incr' = [incr EXCEPT !.ipc = "qa_place"]
  /\ UNCHANGED << gvars, sidle, retval, expired >>

\* the frame of _quick_attach after the placement at pi: the next placement,
\* or the next word when that was the last
QuickAdvance(f) ==
  IF f.pi >= Len(f.placements)
  THEN [f EXCEPT !.ci = @ + 1, !.pi = 1, !.placements = << >>]
  ELSE [f EXCEPT !.pi = @ + 1]

\* lines 229-236: one round of the loop over placements
QuickPlacement ==
  /\ incr.ipc = "qa_place"
  /\ \E p \in {place_word(cells, placed_words, Top.candidates[Top.ci],
                          Top.placements[Top.pi][1], Top.placements[Top.pi][2],
                          Top.placements[Top.pi][3], DICT,
                          FreshId(LiveIds))},
        back \in {IF Top.pi >= Len(Top.placements) THEN "qa"
                  ELSE "qa_place"} :
        IF p.placed = None
        THEN /\ cells' = p.cells
             /\ placed_words' = p.placed_words
             /\ stack' = SetTop(QuickAdvance(Top))
             /\ incr' = [incr EXCEPT !.ipc = back]
             /\ line' = 232
        ELSE IF QuickAccepts(p.placed)
        THEN /\ cells' = p.cells
             /\ placed_words' = p.placed_words
             /\ stack' = << >>
             /\ incr' = [Returned(incr, "quick_attach",
                                  GridOf(p.cells, p.placed_words))
                           EXCEPT !.ipc = "after_qa"]
             /\ line' = 235
        ELSE \E r \in {remove_word(p.cells, p.placed_words, p.placed)} :
                /\ cells' = r.cells
                /\ placed_words' = r.placed_words
                /\ stack' = SetTop(QuickAdvance(Top))
                /\ incr' = [incr EXCEPT
                              !.ipc = IF r.raised THEN "raised" ELSE back]
                /\ line' = 236
  /\ UNCHANGED << gvars, sidle, retval, expired >>

\* lines 182-188 and 250-256: incremental_solve returns the grid of
\* _quick_attach, or calls _partial_restructure, which comes to the head of
\* its loop or returns None for a board without words
AfterQuick ==
  /\ incr.ipc = "after_qa"
  /\ IF Succeeded(incr.result)
     THEN /\ incr' = IncrReturn(incr, incr.result, "quick_attach")
          /\ line' = 183
          /\ UNCHANGED expired
     ELSE /\ expired' = FALSE
          /\ IF placed_words = << >>
             THEN /\ incr' = [Returned(Started("partial_restructure"),
                                       "partial_restructure", None)
                                EXCEPT !.ipc = "after_pr"]
                  /\ line' = 253
             ELSE /\ incr' = [Started("partial_restructure") EXCEPT
                                !.ipc = "pr_loop", !.n_remove = 1,
                                !.n_limit = RemoveLimit(placed_words)]
                  /\ line' = 256
  /\ UNCHANGED << cells, placed_words, gvars, sidle, stack, retval >>

\* lines 256-280 and 288: the head of the loop over n_remove, up to the call
\* of _mini_backtrack or to the return of None
RestructureRound ==
  /\ incr.ipc = "pr_loop"
  /\ IF incr.n_remove >= incr.n_limit \/ expired
     THEN /\ incr' = [Returned(incr, "partial_restructure", None)
                        EXCEPT !.ipc = "after_pr"]
          /\ line' = 288
          /\ UNCHANGED << cells, placed_words, stack >>
     ELSE \E f \in {FreeWords(cells, placed_words,
                              LastRecords(placed_words, incr.n_remove),
                              Len(LastRecords(placed_words, incr.n_remove)),
                              << >>)} :
             /\ cells' = f.cells
             /\ placed_words' = f.placed_words
             /\ IF f.raised
                THEN /\ incr' = [incr EXCEPT !.ipc = "raised"]
                     /\ line' = 267
                     /\ UNCHANGED stack
                ELSE /\ incr' =
                          [incr EXCEPT
                             !.ipc = "bt_enter",
                             !.snapshot = _snapshot_grid(cells, placed_words),
                             !.letters_to_place =
                                Append(f.freed_letters, incr.new_letter),
                             !.initial_words = RecordIds(f.placed_words)]
                     /\ stack' = << NewFrame(0, f.cells, f.placed_words) >>
                     /\ line' = 277
  /\ UNCHANGED << gvars, sidle, retval, expired >>

\* a return statement of _bt
MiniReturns(value, at) ==
  /\ incr' = [incr EXCEPT !.ipc = "bt_ret"]
  /\ retval' = value
  /\ line' = at

\* lines 337-346: a _bt call from its entry to the head of the loop of line
\* 346, or to one of the return statements before it
MiniEnter ==
  /\ incr.ipc = "bt_enter"
  /\ IF expired
     THEN /\ MiniReturns(FALSE, 338)
          /\ UNCHANGED << cells, placed_words, stack >>
     ELSE \E rem \in {_get_remaining(cells, placed_words,
                                     Counter(incr.letters_to_place),
                                     incr.initial_words)} :
             IF CounterEmpty(rem)
             THEN /\ MiniReturns(TRUE, 341)
                  /\ UNCHANGED << cells, placed_words, stack >>
             ELSE \E b \in {BeginCandidate(
                              [Top EXCEPT !.candidates =
                                 _sort_candidates(
                                   find_words_from_letters(DICT, rem, 2, 0))],
                              1)} :
                     /\ stack' = SetTop(b.frame)
                     /\ cells' = b.cells
                     /\ placed_words' = b.placed_words
                     /\ incr' = [incr EXCEPT !.ipc = "bt_loop"]
                     /\ line' = 346
                     /\ UNCHANGED retval
  /\ UNCHANGED << gvars, sidle, expired >>

\* lines 349-357: one round of the loop over placements, up to the recursive
\* call or to the end of the round.  The recursion ends with the budget or,
\* before that, with the RecursionError of the interpreter.
MiniTryPlacement ==
  /\ incr.ipc = "bt_loop"
  /\ Top.ci <= Len(Top.candidates)
  /\ Top.pi <= Len(Top.placements)
  /\ \E p \in {place_word(cells, placed_words, Top.candidates[Top.ci],
                          Top.placements[Top.pi][1], Top.placements[Top.pi][2],
                          Top.placements[Top.pi][3], DICT,
                          FreshId(LiveIds))} :
        IF p.placed = None
        THEN /\ cells' = p.cells
             /\ placed_words' = p.placed_words
             /\ stack' = SetTop([Top EXCEPT !.pi = @ + 1])
             /\ line' = 351
             /\ UNCHANGED incr
        ELSE IF OverBudget(_get_remaining(p.cells, p.placed_words,
                                          Counter(incr.letters_to_place),
                                          incr.initial_words))
        THEN \E r \in {remove_word(p.cells, p.placed_words, p.placed)} :
                /\ cells' = r.cells
                /\ placed_words' = r.placed_words
                /\ stack' = SetTop([Top EXCEPT !.pi = @ + 1])
                /\ line' = 355
                /\ incr' = [incr EXCEPT
                              !.ipc = IF r.raised THEN "raised" ELSE @]
        ELSE /\ cells' = p.cells
             /\ placed_words' = p.placed_words
             /\ line' = 357
             /\ IF Len(stack) < MaxNest \/ expired
                THEN /\ stack' = Append(SetTop([Top EXCEPT !.placed = p.placed]),
                                        NewFrame(Top.depth + 1, p.cells,
                                                 p.placed_words))
                     /\ incr' = [incr EXCEPT !.ipc = "bt_enter"]
                ELSE /\ stack' = SetTop([Top EXCEPT !.placed = p.placed])
                     /\ incr' = [incr EXCEPT !.ipc = "raised"]
  /\ UNCHANGED << gvars, sidle, retval, expired >>

\* lines 346-347: the placements of a candidate are used up
MiniNextCandidate ==
  /\ incr.ipc = "bt_loop"
  /\ Top.ci <= Len(Top.candidates)
  /\ Top.pi > Len(Top.placements)
  /\ \E b \in {BeginCandidate(Top, Top.ci + 1)} :
        /\ stack' = SetTop(b.frame)
        /\ cells' = b.cells
        /\ placed_words' = b.placed_words
        /\ line' = 346
  /\ UNCHANGED << gvars, sidle, retval, expired, incr >>

\* line 360: the candidates are used up
MiniExhausted ==
  /\ incr.ipc = "bt_loop"
  /\ Top.ci > Len(Top.candidates)
  /\ MiniReturns(FALSE, 360)
  /\ UNCHANGED << cells, placed_words, gvars, sidle, stack, expired >>

\* lines 357-359: a recursive call has returned to the _bt call that made it
MiniReturnToCaller ==
  /\ incr.ipc = "bt_ret"
  /\ Len(stack) > 1
  /\ \E caller \in {stack[Len(stack) - 1]} :
        IF retval
        THEN /\ stack' = SubSeq(stack, 1, Len(stack) - 1)
             /\ line' = 358
             /\ UNCHANGED << cells, placed_words, incr >>
        ELSE \E r \in {remove_word(cells, placed_words, caller.placed)} :
                /\ cells' = r.cells
                /\ placed_words' = r.placed_words
                /\ stack' = Append(SubSeq(stack, 1, Len(stack) - 2),
                                   [caller EXCEPT !.pi = @ + 1])
                /\ line' = 359
                /\ incr' = [incr EXCEPT
                              !.ipc = IF r.raised THEN "raised" ELSE "bt_loop"]
  /\ UNCHANGED << gvars, sidle, retval, expired >>

\* lines 277-286: _mini_backtrack has returned to _partial_restructure,
\* which returns the grid or puts the snapshot back and goes to the next
\* round
MiniReturn ==
  /\ incr.ipc = "bt_ret"
  /\ Len(stack) = 1
  /\ stack' = << >>
  /\ IF retval
     THEN /\ incr' = [Returned(incr, "partial_restructure",
                               GridOf(cells, placed_words))
                        EXCEPT !.ipc = "after_pr"]
          /\ line' = 282
          /\ UNCHANGED << cells, placed_words >>
     ELSE \E g \in {RestoreGrid(cells, placed_words, incr.snapshot)} :
             /\ cells' = g.cells
             /\ placed_words' = g.placed_words
             /\ incr' = [incr EXCEPT !.ipc = "pr_loop", !.n_remove = @ + 1]
             /\ line' = 286
  /\ UNCHANGED << gvars, sidle, retval, expired >>

\* lines 189-204: incremental_solve returns the grid of
\* _partial_restructure, or calls _full_resolve (which calls solve), or
\* returns its grid as failed.  Whether three seconds of the timeout are
\* left is open.
AfterPartial ==
  /\ incr.ipc = "after_pr"
  /\ IF Succeeded(incr.result)
     THEN /\ incr' = IncrReturn(incr, incr.result, "partial_restructure")
          /\ line' = 190
          /\ UNCHANGED << cells, placed_words, pc, expired >>
     ELSE \E enough \in BOOLEAN :
             IF FullResolveDue(enough, Len(letters) - letter_count(cells))
             THEN /\ incr' = [Started("full_resolve") EXCEPT
                                !.ipc = "full", !.time_left = enough,
                                !.held = GridOf(cells, placed_words)]
                  /\ cells' = << >>
                  /\ placed_words' = << >>
                  /\ pc' = "start"
                  /\ expired' = FALSE
                  /\ line' = 200
             ELSE /\ incr' = IncrReturn([incr EXCEPT !.time_left = enough],
                                        GridOf(cells, placed_words),
                                        "failed")
                  /\ line' = 204
                  /\ UNCHANGED << cells, placed_words, pc, expired >>
  /\ UNCHANGED << gvars, letters, all_words, fw, stack, retval, first_placed,
                  best_grid, best_placed, iterations, result >>

\* lines 200-204: solve has returned to incremental_solve, whose grid is
\* the one it was called with
AfterFull ==
  /\ incr.ipc = "full"
  /\ pc = "done"
  /\ cells' = incr.held.cells
  /\ placed_words' = incr.held.placed_words
  /\ IF Succeeded(result)
     THEN /\ incr' = IncrReturn(Returned(incr, "full_resolve", result),
                                result, "full_resolve")
          /\ line' = 202
     ELSE /\ incr' = IncrReturn(Returned(incr, "full_resolve", result),
                                incr.held, "failed")
          /\ line' = 204
  /\ pc' = "idle"
  /\ UNCHANGED << gvars, letters, all_words, fw, stack, retval, first_placed,
                  best_grid, best_placed, iterations, expired, result >>

NextIncr ==
  \/ IncrCall
  \/ BudgetPasses
  \/ QuickWord
  \/ QuickPlacement
  \/ AfterQuick
  \/ RestructureRound
  \/ MiniEnter
  \/ MiniTryPlacement
  \/ MiniNextCandidate
  \/ MiniExhausted
  \/ MiniReturnToCaller
  \/ MiniReturn
  \/ AfterPartial
  \/ SolveBegin
  \/ TimePasses
  \/ FirstWord
  \/ BtEnter
  \/ TryPlacement
  \/ NextCandidate
  \/ Exhausted
  \/ ReturnToCaller
  \/ ReturnToSolve
  \/ Finish
  \/ AfterFull

SpecIncr == InitIncr /\ [][NextIncr]_vars

(***************************************************************************)
(* Properties of the board.                                                *)
(***************************************************************************)
Occupied(c, pos) == \E i \in 1..Len(c) : c[i].pos = pos

LetterAt(c, pos) == c[CHOOSE i \in 1..Len(c) : c[i].pos = pos].ch

Path(rec) == _word_positions(rec.word, rec.row, rec.col, rec.direction)

PathSet(rec) == {Path(rec)[i] : i \in 1..Len(rec.word)}

Step(pos, d, n) == << pos[1] + n * d[1], pos[2] + n * d[2] >>

\* a and b are the two ends of a maximal run of occupied cells along d
MaximalRun(c, a, b, d) ==
  \E n \in 1..Len(c) :
     /\ b = Step(a, d, n)
     /\ \A j \in 0..n : Occupied(c, Step(a, d, j))
     /\ ~Occupied(c, Step(a, d, 0 - 1))
     /\ ~Occupied(c, Step(a, d, n + 1))

\* the letters from a to b along d
Spelled(c, a, b, d) ==
  LET n == (b[1] - a[1]) + (b[2] - a[2])
  IN [j \in 1..(n + 1) |-> LetterAt(c, Step(a, d, j - 1))]

RunsAreWords(c) ==
  \A a \in CellPositions(c), b \in CellPositions(c), k \in 1..2 :
     MaximalRun(c, a, b, DirValue(Directions[k]))
        => Spelled(c, a, b, DirValue(Directions[k])) \in WordSet

\* C1: after successful placements of dictionary words and removals of the
\* most recent record, every maximal horizontal or vertical run of two or
\* more occupied cells spells a word of the dictionary.
C1_RunsAreWords == RunsAreWords(cells)

\* a word was accepted onto a board of several words and made a maximal run
\* that is no record's own word: a run formed by adjacency
C1_Witness ==
  /\ op = "place" /\ ret.line = 123
  /\ Len(ret.placed.cells_added) > 0
  /\ \E a \in CellPositions(cells), b \in CellPositions(cells), k \in 1..2 :
        /\ MaximalRun(cells, a, b, DirValue(Directions[k]))
        /\ \A i \in 1..Len(placed_words) :
              ~(/\ placed_words[i].row = a[1] /\ placed_words[i].col = a[2]
                /\ placed_words[i].direction = Directions[k])

Adjacent(p, q) ==
  \/ p[1] = q[1] /\ (p[2] = q[2] + 1 \/ p[2] = q[2] - 1)
  \/ p[2] = q[2] /\ (p[1] = q[1] + 1 \/ p[1] = q[1] - 1)

RECURSIVE Component(_, _)
\* the cells of all reachable from the set S by steps between 4-neighbours
Component(all, S) ==
  LET N == S \cup {p \in all : \E q \in S : Adjacent(p, q)}
  IN IF N = S THEN S ELSE Component(all, N)

Connected(c) ==
  is_empty(c) \/ Component(CellPositions(c), {c[1].pos}) = CellPositions(c)

\* C2: the occupied cells of a non-empty board form one 4-connected
\* component, and a word accepted on a non-empty board shares a coordinate
\* with a letter that was there before.
C2_Connected ==
  /\ Connected(cells)
  /\ (op = "place" /\ ret.placed # None /\ ~is_empty(before.cells))
        => PathSet(ret.placed) \cap CellPositions(before.cells) # {}

\* a third word was accepted and added cells to a board of two words
C2_Witness ==
  /\ op = "place" /\ ret.placed # None
  /\ Len(before.placed_words) >= 2
  /\ Len(ret.placed.cells_added) > 0
  /\ Len(ret.placed.cells_added) < Len(ret.placed.word)

\* C3: when place_word returns None the cell mapping and the placement
\* sequence are what they were before the call.
C3_RejectionLeavesBoard ==
  (op = "place" /\ ret.placed = None)
     => /\ CellMap(cells) = CellMap(before.cells)
        /\ placed_words = before.placed_words

\* a rejection for an invalid perpendicular run: cells had been written
C3_Witness == op = "place" /\ ret.placed = None /\ ret.line = 119

(***************************************************************************)
(* The four conditions of acceptance, stated on the board before the call. *)
(***************************************************************************)
\* the number of occupied cells in a row from pos (exclusive) along d
Span(c, pos, d) ==
  CHOOSE n \in 0..Len(c) :
     /\ \A j \in 1..n : Occupied(c, Step(pos, d, j))
     /\ ~Occupied(c, Step(pos, d, n + 1))

\* the run through pos on the perpendicular axis once ch is written at pos
PerpRun(c, pos, ch, pd) ==
  LET up   == Span(c, pos, << 0 - pd[1], 0 - pd[2] >>)
      down == Span(c, pos, pd)
  IN [j \in 1..(up + 1 + down) |->
        IF j = up + 1 THEN ch ELSE LetterAt(c, Step(pos, pd, j - up - 1))]

Acceptable(c, word, row, col, direction) ==
  LET d  == DirValue(direction)
      pd == << d[2], d[1] >>
      at(i) == Step(<< row, col >>, d, i - 1)
  IN /\ ~Occupied(c, Step(<< row, col >>, d, 0 - 1))
     /\ ~Occupied(c, Step(<< row, col >>, d, Len(word)))
     /\ \A i \in 1..Len(word) :
           Occupied(c, at(i)) => LetterAt(c, at(i)) = word[i]
     /\ (c # << >>) => \E i \in 1..Len(word) : Occupied(c, at(i))
     /\ \A i \in 1..Len(word) :
           ~Occupied(c, at(i))
              => LET run == PerpRun(c, at(i), word[i], pd)
                 IN Len(run) > 1 => run \in WordSet

\* the words tried against every board: the dictionary's and two others
TrialWords == WordSet \cup {<< "T", "T" >>, << "C", "A", "H" >>}

\* C4: place_word accepts exactly when the cells before and after the word
\* are free, every occupied cell on the path holds the word's letter, the
\* path meets an occupied cell unless the board is empty, and every new
\* cell's perpendicular run longer than one cell is a dictionary word.
C4_AcceptedIff ==
  \A word \in TrialWords, row \in Coords, col \in Coords, k \in 1..2 :
     (place_word(cells, placed_words, word, row, col, Directions[k], DICT,
                 FreshId(RecordIds(placed_words))).placed # None)
        <=> Acceptable(cells, word, row, col, Directions[k])

\* a word was accepted on a non-empty board with a new cell whose
\* perpendicular run is longer than one cell
C4_Witness ==
  /\ op = "place" /\ ret.placed # None /\ ~is_empty(before.cells)
  /\ \E i \in 1..Len(ret.placed.cells_added) :
        LET d  == DirValue(ret.placed.direction)
            pos == ret.placed.cells_added[i]
        IN Len(PerpRun(before.cells, pos, LetterAt(cells, pos),
                       << d[2], d[1] >>)) > 1

\* C5: remove_word on the record a successful place_word has just returned
\* restores the cell mapping and the placement sequence of before the
\* placement.
C5_PlaceThenRemove ==
  [][(/\ op = "place" /\ ret.placed # None
      /\ op' = "remove" /\ ret'.placed = ret.placed)
        => /\ CellMap(cells') = CellMap(before.cells)
           /\ placed_words' = before.placed_words]_vars

\* a record that crosses an earlier word and added cells has been removed
C5_Witness ==
  /\ op = "remove"
  /\ placed_words # << >>
  /\ ret.placed.cells_added # << >>
  /\ Len(ret.placed.cells_added) < Len(ret.placed.word)

Twins(a, b) == SameSpot(a, b)

TwinsOf(pw, rec) ==
  {i \in 1..Len(pw) : Twins(pw[i], rec)}

\* the sequence without the one record that is the object rec
WithoutObject(pw, rec) ==
  LET j == CHOOSE j \in 1..Len(pw) : pw[j].id = rec.id
  IN [h \in 1..(Len(pw) - 1) |-> IF h < j THEN pw[h] ELSE pw[h + 1]]

\* C6 as claimed: with two records of identical word, anchor and axis in
\* the sequence, remove_word on either of them removes exactly that object
\* and leaves the other in the sequence with every cell of its word occupied.
C6_EitherTwin ==
  [][(op' = "remove" /\ TwinsOf(placed_words, ret'.placed) # {})
        => /\ placed_words' = WithoutObject(placed_words, ret'.placed)
           /\ \A i \in TwinsOf(placed_words, ret'.placed) :
                 /\ \E j \in 1..Len(placed_words') :
                       placed_words'[j] = placed_words[i]
                 /\ \A pos \in PathSet(placed_words[i]) :
                       Occupied(cells', pos)]_vars

\* C6 amended: remove_word on either of the two removes exactly that object,
\* leaves the other in the sequence and deletes the cells of the removed
\* record's newly-added list and no others; so the other record keeps every
\* occupied cell of its word when the removed record added none of them.
C6_RemovesThatObject ==
  [][(op' = "remove" /\ TwinsOf(placed_words, ret'.placed) # {})
        => /\ placed_words' = WithoutObject(placed_words, ret'.placed)
           /\ CellMap(cells') =
                {e \in CellMap(cells) :
                   \A k \in 1..Len(ret'.placed.cells_added) :
                      ret'.placed.cells_added[k] # e[1]}
           /\ \A i \in TwinsOf(placed_words, ret'.placed) :
                 /\ \E j \in 1..Len(placed_words') :
                       placed_words'[j] = placed_words[i]
                 /\ (\A k \in 1..Len(ret'.placed.cells_added) :
                        ret'.placed.cells_added[k] \notin
                           PathSet(placed_words[i]))
                    => \A pos \in PathSet(placed_words[i]) :
                          Occupied(cells, pos) => Occupied(cells', pos)]_vars

\* a duplicate that added no cell has been removed; its twin is still in the
\* sequence, the cells of its word occupied
C6_Witness ==
  /\ op = "remove"
  /\ ret.placed.cells_added = << >>
  /\ \E i \in TwinsOf(placed_words, ret.placed) :
        /\ placed_words[i].cells_added # << >>
        /\ \A pos \in PathSet(placed_words[i]) : Occupied(cells, pos)

\* C7: get_valid_placements leaves the cell mapping and the placement
\* sequence as they were before the call, however often it is called.
C7_ProbeIsPure ==
  op = "probe"
     => /\ CellMap(cells) = CellMap(before.cells)
        /\ placed_words = before.placed_words

\* a probe of a board of two words that found several placements, each of
\* them placed and removed again
C7_Witness ==
  /\ op = "probe"
  /\ Len(placed_words) >= 2
  /\ Len(found) >= 2

(***************************************************************************)
(* Properties of solve.                                                    *)
(***************************************************************************)
\* how often each letter is on the board c
OnBoard(c) == Counter(CellLetters(c))

\* the unplaced letters as _backtrack computes them at line 68
Unplaced(c) == Positive(_remaining_letters(c, letter_counts))

Conserved(c) ==
  /\ \A ch \in AlphaSet :
        /\ OnBoard(c)[ch] <= letter_counts[ch]
        /\ OnBoard(c)[ch] + Unplaced(c)[ch] = letter_counts[ch]
  /\ letter_count(c) + CounterSum(Unplaced(c)) = total_letters

\* C8: on every board on which _backtrack is entered or from which it
\* returns, on every best snapshot and on the board solve returns, each
\* letter is on the board at most as often as it is in the hand, and board
\* count plus unplaced count is the hand count, per letter and in total.
C8_LetterConservation ==
  /\ pc \in {"enter", "ret"} => Conserved(cells)
  /\ best_grid # None => Conserved(best_grid.cells)
  /\ (pc = "done" /\ result # None) => Conserved(result.cells)

\* the search recurses on a board that has used up a letter of the hand
\* while other letters are unplaced, after an earlier placement of the same
\* candidate was taken back
C8_Witness ==
  /\ pc = "enter" /\ line = 108
  /\ Len(stack) >= 2
  /\ stack[Len(stack) - 1].pi > 1
  /\ letter_count(cells) < total_letters
  /\ \E ch \in AlphaSet :
        letter_counts[ch] > 0 /\ OnBoard(cells)[ch] = letter_counts[ch]

\* C9: when the outermost _backtrack call returns True, the board solve
\* returns holds exactly the hand: the same letters as often, and as many
\* cells as the hand has letters.
C9_SuccessHoldsHand ==
  (pc = "done" /\ line = 125)
     => /\ result # None
        /\ OnBoard(result.cells) = letter_counts
        /\ letter_count(result.cells) = total_letters

\* solve has returned a board of several crossing words after success
C9_Witness ==
  /\ pc = "done" /\ line = 125
  /\ Len(result.placed_words) >= 2
  /\ total_letters >= 4

\* no word of the dictionary with two letters or more can be made of the hand
NoWordFormable ==
  \A w \in WordSet :
     Len(w) >= 2 => \E ch \in AlphaSet : Counter(w)[ch] > letter_counts[ch]

\* C10: for a hand of which no dictionary word of length 2 or more can be
\* made, solve returns None from line 32: it raises nothing and places
\* nothing on the way.
C10_NoWordReturnsNone ==
  NoWordFormable
     => /\ pc \in {"start", "done"}
        /\ cells = << >> /\ placed_words = << >>
        /\ pc = "done" => (result = None /\ line = 32)

\* solve has returned for a hand of several letters that make no word
C10_Witness ==
  /\ pc = "done"
  /\ NoWordFormable
  /\ total_letters >= 2

(***************************************************************************)
(* C11: whenever at least one dictionary word can be formed from the hand, *)
(* solve returns a board (the complete one of line 125 or the best partial *)
(* one of line 137) and never None, whenever the timeout expires, before   *)
(* the first _backtrack call included.                                     *)
(***************************************************************************)
C11_WordFormableReturnsBoard ==
  (pc = "done" /\ ~NoWordFormable)
     => /\ result # None
        /\ line \in {125, 137}
        /\ result.cells # << >>

\* solve has returned the best partial board although the timeout had expired
\* by the time its only _backtrack call returned (the loop of line 117 was
\* left at line 129 after the first word)
C11_Witness ==
  /\ pc = "done"
  /\ ~NoWordFormable
  /\ expired
  /\ iterations = 1
  /\ line = 137
  /\ result # None
  /\ letter_count(result.cells) < total_letters

(***************************************************************************)
(* C12: a board returned by solve has no two placement records with the    *)
(* same word, anchor row, anchor column and direction, whatever duplicate  *)
(* records backtracking has left in the grid it worked on.                 *)
(***************************************************************************)
DuplicateRecords(rec) ==
  \E i, j \in 1..Len(rec) :
     i < j /\ SnapshotKey(rec[i]) = SnapshotKey(rec[j])

C12_NoDuplicateRecords ==
  (pc = "done" /\ result # None) => ~DuplicateRecords(result.placed_words)

\* solve has returned a board while the grid it worked on holds duplicates
C12_Witness ==
  /\ pc = "done"
  /\ result # None
  /\ DuplicateRecords(placed_words)
  /\ result.cells = cells
  /\ Len(result.placed_words) < Len(placed_words)

(***************************************************************************)
(* C13: solve terminates for every hand, whether or not the deadline ever  *)
(* expires.  Stated with a variant: the position of solve (how far it is   *)
(* through lines 24-139, the index of the first word, and for each active  *)
(* _backtrack call where it is and the indexes of its candidate and of its *)
(* placement) moves strictly forward, in lexicographic order, with every   *)
(* step solve takes, and the positions are finitely many: at most          *)
(* FirstWordLimit first words, at most MaxDepth + 2 nested calls, and      *)
(* indexes within the finite lists of candidates and placements.           *)
(***************************************************************************)
\* how far solve is through its body
Phase ==
  CASE pc = "start" -> 0
    [] pc \in {"first", "enter", "loop", "ret"} -> 1
    [] pc = "finish" -> 2
    [] OTHER -> 3

\* where the i-th active call is: not begun, in its loops, or returned
CallKey(i) ==
  IF i < Len(stack) \/ pc = "loop"
  THEN << 1, stack[i].ci, stack[i].pi >>
  ELSE IF pc = "enter" THEN << 0, 0, 0 >> ELSE << 2, 0, 0 >>

Position ==
  [head |-> << Phase, fw, 0 >>, calls |-> [i \in 1..Len(stack) |-> CallKey(i)]]

KeyBefore(a, b) ==
  \/ a[1] < b[1]
  \/ a[1] = b[1] /\ a[2] < b[2]
  \/ a[1] = b[1] /\ a[2] = b[2] /\ a[3] < b[3]

\* x comes before y in lexicographic order (a proper prefix comes first)
CallsBefore(x, y) ==
  \/ \E k \in 1..Len(x) :
        /\ k <= Len(y)
        /\ x[k] # y[k]
        /\ \A j \in 1..(k - 1) : x[j] = y[j]
        /\ KeyBefore(x[k], y[k])
  \/ /\ Len(x) < Len(y)
     /\ \A j \in 1..Len(x) : x[j] = y[j]

PositionBefore(p, q) ==
  \/ KeyBefore(p.head, q.head)
  \/ p.head = q.head /\ CallsBefore(p.calls, q.calls)

LongestWord ==
  CHOOSE n \in 0..Len(DictWords) + MaxHand + 1 :
     /\ \A i \in 1..Len(DictWords) : Len(DictWords[i]) <= n
     /\ \E i \in 1..Len(DictWords) : Len(DictWords[i]) = n

\* the positions are finitely many
PositionBounded ==
  /\ fw <= FirstWordLimit + 1
  /\ fw <= Len(all_words) + 1
  /\ Len(stack) <= MaxDepth + 2
  /\ pc \in {"enter", "loop", "ret"} <=> stack # << >>
  /\ \A i \in 1..Len(stack) :
        /\ stack[i].depth = i - 1
        /\ Len(stack[i].candidates) <= Len(DictWords)
        /\ Len(stack[i].placements) <= 2 * LongestWord * (total_letters + 1)
        /\ stack[i].ci <= Len(stack[i].candidates) + 1
        /\ stack[i].pi <= Len(stack[i].placements) + 1
        /\ (i < Len(stack) \/ pc = "loop") =>
              stack[i].ci >= 1 /\ stack[i].pi >= 1

C13_SolveTerminates ==
  [][/\ PositionBounded
     /\ PositionBounded'
     /\ SolveStep => PositionBefore(Position, Position')]_vars

\* solve has returned without the deadline ever expiring, after a search
\* that went past the depth cap of line 54 (more than MaxDepth calls)
C13_Witness ==
  /\ pc = "done"
  /\ ~expired
  /\ iterations > MaxDepth + 1
  /\ stack = << >>

(***************************************************************************)
(* C14: the deadline is checked on every recursive call: a _backtrack call *)
(* that starts after the timeout has elapsed returns False at once, with   *)
(* no candidate list made, no placement probed and no word placed: the     *)
(* grid, the best snapshot and the call's frame are as they were.          *)
(* The code reads the clock only on calls whose number is a multiple of    *)
(* EntryCheckEvery, so this does not hold of it.                           *)
(***************************************************************************)
C14_EveryCallChecksDeadline ==
  [][(pc = "enter" /\ expired /\ BtEnter)
        => /\ pc' = "ret"
           /\ retval' = FALSE
           /\ UNCHANGED << cells, placed_words, stack, best_grid,
                           best_placed >>]_vars

(***************************************************************************)
(* C15: for the hand A, D, D, Q and a dictionary in which no word that can *)
(* be made of the hand contains Q, the board solve returns has exactly     *)
(* three letters placed, A, D and D, and no Q.                             *)
(***************************************************************************)
HandADDQ == << "A", "D", "D", "Q" >>

C15_ADDQPlacesThree ==
  (pc = "done" /\ letters = HandADDQ)
     => /\ result # None
        /\ letter_count(result.cells) = 3
        /\ OnBoard(result.cells) = Counter(<< "A", "D", "D" >>)
        /\ \A i \in 1..Len(result.cells) : result.cells[i].ch # "Q"

\* solve has returned on that hand, in a dictionary where words can be made
\* of the hand (ADD is one) and none of them has a Q
C15_Witness ==
  /\ pc = "done"
  /\ letters = HandADDQ
  /\ InList(<< "A", "D", "D" >>, all_words)
  /\ \A i \in 1..Len(all_words) : CountIn(all_words[i], "Q") = 0
  /\ result # None
  /\ Unplaced(result.cells)["Q"] = 1

(***************************************************************************)
(* C16: the letters of the hand that occur in no word that can be made of  *)
(* the hand are left out of the target count: a _backtrack call that finds *)
(* every other letter of the hand on the board reports success (returns    *)
(* True) instead of looking for further candidates or first words.         *)
(* The code counts every letter of the hand (line 25), so this does not    *)
(* hold of it.                                                             *)
(***************************************************************************)
\* the letter occurs in a dictionary word that can be made of the hand
Placeable(ch) ==
  \E w \in WordSet :
     /\ Len(w) >= 2
     /\ FitsHand(w, letter_counts)
     /\ CountIn(w, ch) > 0

\* the hand without its unplaceable letters
TargetCount ==
  Cardinality({i \in 1..Len(letters) : Placeable(letters[i])})

PlaceableAllPlaced ==
  /\ letter_count(cells) = TargetCount
  /\ \A ch \in AlphaSet :
        Placeable(ch) => OnBoard(cells)[ch] = letter_counts[ch]

C16_SuccessWithoutUnplaceable ==
  [][(/\ pc = "enter"
      /\ ~DepthExceeded(Top.depth)
      /\ ~(EntryCheckDue(iterations + 1) /\ expired)
      /\ PlaceableAllPlaced
      /\ BtEnter)
        => pc' = "ret" /\ retval' = TRUE /\ line' = 66]_vars

(***************************************************************************)
(* C17.  incremental_solve runs its strategies in the order quick attach,  *)
(* partial restructure, full re-solve: a strategy is started only after    *)
(* every strategy before it has returned None, no strategy is started      *)
(* after one has returned a grid, and the name incremental_solve returns   *)
(* is one of quick_attach, partial_restructure, full_resolve and failed:   *)
(* the name of the one strategy that returned a grid, with that grid, or   *)
(* failed when every strategy that ran returned None.                      *)
(***************************************************************************)
StrategyOrder == << "quick_attach", "partial_restructure", "full_resolve" >>

C17_StrategiesInOrder ==
  /\ Len(incr.started) <= Len(StrategyOrder)
  /\ incr.started = SubSeq(StrategyOrder, 1, Len(incr.started))
  /\ Len(incr.log) \in {Len(incr.started) - 1, Len(incr.started)}
  /\ \A k \in 1..Len(incr.log) : incr.log[k].strategy = incr.started[k]
  /\ \A k \in 1..(Len(incr.started) - 1) : incr.log[k].result = None
  /\ incr.ipc = "returned" =>
        /\ Len(incr.log) = Len(incr.started)
        /\ incr.strategy \in {"quick_attach", "partial_restructure",
                              "full_resolve", "failed"}
        /\ IF incr.strategy = "failed"
           THEN \A k \in 1..Len(incr.log) : incr.log[k].result = None
           ELSE /\ incr.log[Len(incr.log)].strategy = incr.strategy
                /\ incr.log[Len(incr.log)].result # None
                /\ incr.out = incr.log[Len(incr.log)].result

\* all three strategies have run, and the third was the first to succeed
C17_Witness ==
  /\ incr.ipc = "returned"
  /\ incr.strategy = "full_resolve"
  /\ incr.started = StrategyOrder
  /\ incr.log[1].result = None
  /\ incr.log[2].result = None
  /\ incr.out # None

(***************************************************************************)
(* C18.  Whenever incremental_solve returns the name failed, the board it  *)
(* returns has the occupied cells of the board it was called with, the     *)
(* same coordinates with the same letters, whatever quick attach and       *)
(* partial restructure placed and removed in between and wherever their    *)
(* budgets ran out.                                                        *)
(***************************************************************************)
C18_FailedReturnsInputBoard ==
  (incr.ipc = "returned" /\ incr.strategy = "failed")
     => CellMap(incr.out.cells) = CellMap(incr.input.cells)

\* failed is returned after partial restructure has removed words, searched
\* and put its snapshot back, and its budget has run out
C18_Witness ==
  /\ incr.ipc = "returned"
  /\ incr.strategy = "failed"
  /\ incr.started = << "quick_attach", "partial_restructure" >>
  /\ incr.snapshot.cells # << >>
  /\ incr.n_remove >= 2
  /\ expired
  /\ CellMap(incr.out.cells) = CellMap(incr.input.cells)
  /\ incr.input.cells # << >>

(***************************************************************************)
(* C19.  Whenever quick attach succeeds, the board gains exactly one newly *)
(* occupied cell, that cell holds the new letter, and the word placed has  *)
(* two or three letters and lies over at least one cell that was occupied  *)
(* before.  The code keeps any placement that adds one cell of a word      *)
(* that has the new letter in it (lines 223 and 234), whichever letter of  *)
(* the word goes into the new cell, so this does not hold of it.           *)
(***************************************************************************)
\* the cells of the returned board that the board at the call did not have
GainedCells == CellMap(incr.out.cells) \ CellMap(incr.input.cells)

\* the record _quick_attach placed
QuickPlaced == incr.out.placed_words[Len(incr.out.placed_words)]

C19_QuickAttachAddsNewLetter ==
  (incr.ipc = "returned" /\ incr.strategy = "quick_attach")
     => /\ CellMap(incr.input.cells) \subseteq CellMap(incr.out.cells)
        /\ Cardinality(GainedCells) = 1
        /\ \A c \in GainedCells : c[2] = incr.new_letter
        /\ Len(QuickPlaced.word) \in {2, 3}
        /\ Len(QuickPlaced.word) - Len(QuickPlaced.cells_added) >= 1

(***************************************************************************)
(* C20.  On a board with a placed word that ends in E, with the new letter *)
(* D, a hand that has both and a dictionary that has ED, incremental_solve *)
(* returns with the strategy quick_attach and one cell gained, and has not *)
(* called the full re-solve.  As stated this does not hold: ED may fit     *)
(* nowhere on the board (the E of AE with a second AE coming down to it),  *)
(* and the budget of quick attach may run out before the placement is      *)
(* tried.                                                                  *)
(***************************************************************************)
ED == << "E", "D" >>

\* the board has a placed word that ends in E
EndsInE(g) ==
  \E k \in 1..Len(g.placed_words) :
     g.placed_words[k].word[Len(g.placed_words[k].word)] = "E"

\* the case of the claim: the call has returned
QuickAttachCase ==
  /\ incr.ipc = "returned"
  /\ incr.new_letter = "D"
  /\ EndsInE(incr.input)
  /\ CountIn(letters, "D") > 0
  /\ CountIn(letters, "E") > 0
  /\ InList(ED, DictWords)

C20_QuickAttachAlways ==
  QuickAttachCase
     => /\ incr.strategy = "quick_attach"
        /\ Cardinality(GainedCells) = 1
        /\ ~InList("full_resolve", incr.started)

(***************************************************************************)
(* C20, amended.  If moreover ED can be placed from an E of the board as a *)
(* valid placement that adds one cell, and the budget of quick attach has  *)
(* not run out when it returns, then quick attach returns a grid, no other *)
(* strategy is called, and incremental_solve returns the strategy          *)
(* quick_attach with one cell gained.                                      *)
(***************************************************************************)
\* place_word accepts ED from an E of the board, across or down, and adds
\* one cell
EDFits(g) ==
  \E k \in 1..Len(g.cells), d \in 1..Len(Directions) :
     /\ g.cells[k].ch = "E"
     /\ \E p \in {place_word(g.cells, g.placed_words, ED, g.cells[k].pos[1],
                             g.cells[k].pos[2], Directions[d], DICT,
                             FreshId(RecordIds(g.placed_words)))} :
           /\ p.placed # None
           /\ Len(p.placed.cells_added) = 1

C20_QuickAttachWhenEDFits ==
  (/\ incr.new_letter = "D"
   /\ EndsInE(incr.input)
   /\ CountIn(letters, "D") > 0
   /\ CountIn(letters, "E") > 0
   /\ InList(ED, DictWords)
   /\ EDFits(incr.input)
   /\ Len(incr.log) >= 1
   /\ ~incr.log[1].timed_out)
     => /\ incr.log[1].result # None
        /\ incr.started = << "quick_attach" >>
        /\ incr.ipc = "returned" =>
              /\ incr.strategy = "quick_attach"
              /\ Cardinality(GainedCells) = 1

\* ED has been attached to the E of AE, the D in the one cell gained
C20_Witness ==
  /\ QuickAttachCase
  /\ EDFits(incr.input)
  /\ ~incr.log[1].timed_out
  /\ incr.strategy = "quick_attach"
  /\ QuickPlaced.word = ED
  /\ \E c \in GainedCells : c[2] = "D"

(***************************************************************************)
(* C21.  The full re-solve is called only after quick attach and partial   *)
(* restructure have both returned None, and only when at least 3 seconds   *)
(* of the timeout are left and the hand has at least 3 letters more than   *)
(* the board; when the two strategies have failed and one of the two       *)
(* conditions does not hold, incremental_solve returns failed and solve    *)
(* has not been called.                                                    *)
(***************************************************************************)
\* unplaced_count of line 198: the hand less the letters of the grid of
\* incremental_solve
UnplacedCount ==
  Len(letters)
     - letter_count(IF incr.ipc = "full" THEN incr.held.cells ELSE cells)

C21_FullResolveOnlyWhenDue ==
  /\ InList("full_resolve", incr.started)
        => /\ incr.time_left
           /\ UnplacedCount >= 3
           /\ incr.log[1].result = None
           /\ incr.log[2].result = None
  /\ (/\ incr.ipc = "returned"
      /\ Len(incr.log) >= 2
      /\ incr.log[2].result = None
      /\ ~(incr.time_left /\ UnplacedCount >= 3))
        => /\ incr.strategy = "failed"
           /\ ~InList("full_resolve", incr.started)
           /\ pc = "idle"
           /\ iterations = 0

\* three seconds were left, but the hand had fewer than 3 letters more than
\* the board: failed, and solve was not called
C21_Witness ==
  /\ incr.ipc = "returned"
  /\ incr.strategy = "failed"
  /\ incr.started = << "quick_attach", "partial_restructure" >>
  /\ incr.time_left
  /\ UnplacedCount \in {1, 2}
  /\ iterations = 0

(***************************************************************************)
(* C22.  The record sequence of a snapshot has exactly one record for each *)
(* distinct (word, row, col, direction) of the source board's sequence, in *)
(* the order of first occurrence: records with the same key collapse to    *)
(* the first of them, and records with different keys are all kept.        *)
(* Checked of every snapshot solve takes (lines 63 and 125).               *)
(***************************************************************************)
\* the index of the first record of src that has the key of pw
FirstWithKey(src, pw) ==
  CHOOSE k \in 1..Len(src) :
     /\ SnapshotKey(src[k]) = SnapshotKey(pw)
     /\ \A m \in 1..(k - 1) : SnapshotKey(src[m]) # SnapshotKey(pw)

\* snap is src with every record dropped whose key an earlier record has
FirstOccurrences(src, snap) ==
  /\ \A i, j \in 1..Len(snap) :
        i < j => SnapshotKey(snap[i]) # SnapshotKey(snap[j])
  /\ \A k \in 1..Len(src) :
        \E i \in 1..Len(snap) : SnapshotKey(snap[i]) = SnapshotKey(src[k])
  /\ \A i \in 1..Len(snap) :
        /\ \E k \in 1..Len(src) : SnapshotKey(src[k]) = SnapshotKey(snap[i])
        /\ snap[i] = src[FirstWithKey(src, snap[i])]
  /\ \A i, j \in 1..Len(snap) :
        i < j => FirstWithKey(src, snap[i]) < FirstWithKey(src, snap[j])

C22_SnapshotOnePerKey ==
  [][/\ best_grid' # best_grid
        => FirstOccurrences(placed_words, best_grid'.placed_words)
     /\ (result' # result /\ line' = 125)
        => FirstOccurrences(placed_words, result'.placed_words)]_vars

\* solve has returned the snapshot of a board with records of the same key:
\* they are one record in the snapshot, next to a record of another key
C22_Witness ==
  /\ pc = "done"
  /\ line = 125
  /\ DuplicateRecords(placed_words)
  /\ FirstOccurrences(placed_words, result.placed_words)
  /\ Len(result.placed_words) < Len(placed_words)
  /\ Len(result.placed_words) >= 2

(***************************************************************************)
(* A board and a snapshot of it, each changed after the snapshot was       *)
(* taken.  The snapshot is kept in best_grid, as solve keeps its own.      *)
(* new.cells = dict(grid.cells) is a dict of its own and deduped a list of *)
(* its own, but deduped.append(pw) puts the PlacedWord objects of the      *)
(* source into it: a record of the snapshot and the record of the source   *)
(* with the same id are one object.                                        *)
(***************************************************************************)
\* the ids of the records of the board and of its snapshot
SnapIds ==
  RecordIds(placed_words)
     \cup (IF best_grid = None THEN {} ELSE RecordIds(best_grid.placed_words))

\* grid.cells[pos] = ch
WriteCell(c, pos, ch) ==
  IF Has(c, pos)
  THEN [i \in 1..Len(c) |-> IF c[i].pos = pos THEN [c[i] EXCEPT !.ch = ch]
                                              ELSE c[i]]
  ELSE SetCell(c, pos, ch)

\* pw.cells_added.pop() on the PlacedWord object id, as a sequence of records
\* that may hold the object shows it afterwards
PopCellsAdded(rec, id) ==
  [k \in 1..Len(rec) |->
     IF rec[k].id = id
     THEN [rec[k] EXCEPT !.cells_added = SubSeq(@, 1, Len(@) - 1)]
     ELSE rec[k]]

\* a run is followed up to its first write to a record object
SnapIntact == op # "snap_edit"

\* in these runs the source is changed before the snapshot is
SnapUntouched == op \notin {"snap_place", "snap_remove", "snap_edit"}

\* best_grid = _snapshot_grid(grid), once in a run
SnapTake ==
  /\ SnapIntact
  /\ best_grid = None
  /\ placed_words # << >>
  /\ best_grid' = _snapshot_grid(cells, placed_words)
  /\ op' = "snapshot"
  /\ UNCHANGED << cells, placed_words, ret, before, found, pc, line, letters,
                  all_words, fw, stack, retval, first_placed, best_placed,
                  iterations, expired, result, incr >>

\* grid.place_word(...) on the source, before and after the snapshot; in
\* these runs every word is anchored at the origin
SnapSourcePlace ==
  /\ SnapUntouched
  /\ Len(placed_words) < MaxRecords
  /\ \E word \in PlaceWords, k \in 1..Len(Directions) :
        /\ \E p \in {place_word(cells, placed_words, word, 0, 0,
                                Directions[k], DICT, FreshId(SnapIds))} :
              /\ cells' = p.cells
              /\ placed_words' = p.placed_words
  /\ op' = "source_place"
  /\ UNCHANGED << ret, before, found, svars, incr >>

\* grid.remove_word(grid.placed_words[-1]) on the source
SnapSourceRemove ==
  /\ SnapUntouched
  /\ best_grid # None
  /\ placed_words # << >>
  /\ \E r \in {remove_word(cells, placed_words,
                           placed_words[Len(placed_words)])} :
        /\ ~r.raised
        /\ cells' = r.cells
        /\ placed_words' = r.placed_words
  /\ op' = "source_remove"
  /\ UNCHANGED << ret, before, found, svars, incr >>

\* grid.cells[(5, 5)] = "Z" on the source: a cell away from the words
SnapSourceWrite ==
  /\ SnapUntouched
  /\ best_grid # None
  /\ cells' = WriteCell(cells, << MaxCoord + MaxRecords, MaxCoord >>, "Z")
  /\ cells' # cells
  /\ op' = "source_write"
  /\ UNCHANGED << placed_words, ret, before, found, svars, incr >>

\* snap.place_word(...) on the snapshot
SnapPlace ==
  /\ SnapIntact
  /\ best_grid # None
  /\ Len(best_grid.placed_words) < MaxRecords
  /\ \E word \in PlaceWords, k \in 1..Len(Directions) :
        /\ \E p \in {place_word(best_grid.cells, best_grid.placed_words, word,
                                0, 0, Directions[k], DICT,
                                FreshId(SnapIds))} :
              best_grid' = GridOf(p.cells, p.placed_words)
  /\ op' = "snap_place"
  /\ UNCHANGED << cells, placed_words, ret, before, found, pc, line, letters,
                  all_words, fw, stack, retval, first_placed, best_placed,
                  iterations, expired, result, incr >>

\* snap.remove_word(snap.placed_words[-1]) on the snapshot
SnapRemove ==
  /\ SnapIntact
  /\ best_grid # None
  /\ best_grid.placed_words # << >>
  /\ \E r \in {remove_word(best_grid.cells, best_grid.placed_words,
                 best_grid.placed_words[Len(best_grid.placed_words)])} :
        /\ ~r.raised
        /\ best_grid' = GridOf(r.cells, r.placed_words)
  /\ op' = "snap_remove"
  /\ UNCHANGED << cells, placed_words, ret, before, found, pc, line, letters,
                  all_words, fw, stack, retval, first_placed, best_placed,
                  iterations, expired, result, incr >>

\* snap.placed_words[i].cells_added.pop(): a write to a record object that
\* is reached through the snapshot
SnapEdit ==
  /\ SnapIntact
  /\ best_grid # None
  /\ \E i \in 1..Len(best_grid.placed_words) :
        /\ best_grid.placed_words[i].cells_added # << >>
        /\ best_grid' =
              [best_grid EXCEPT !.placed_words =
                 PopCellsAdded(@, best_grid.placed_words[i].id)]
        /\ placed_words' =
              PopCellsAdded(placed_words, best_grid.placed_words[i].id)
  /\ op' = "snap_edit"
  /\ UNCHANGED << cells, ret, before, found, pc, line, letters, all_words, fw,
                  stack, retval, first_placed, best_placed, iterations,
                  expired, result, incr >>

NextSnap ==
  \/ SnapTake
  \/ SnapSourcePlace
  \/ SnapSourceRemove
  \/ SnapSourceWrite
  \/ SnapPlace
  \/ SnapRemove
  \/ SnapEdit

SpecSnap == Init /\ [][NextSnap]_vars

(***************************************************************************)
(* C23.  A snapshot shares no mutable storage with its source board: a     *)
(* place_word, a remove_word or a direct cell write on the source leaves   *)
(* the cells and the records of the snapshot as they were, and a mutation  *)
(* of the snapshot leaves the cells and the records of the source as they  *)
(* were.                                                                   *)
(***************************************************************************)
C23_SnapshotIndependent ==
  [][/\ op' \in {"source_place", "source_remove", "source_write"}
           => best_grid' = best_grid
     /\ op' \in {"snap_place", "snap_remove", "snap_edit"}
           => UNCHANGED << cells, placed_words >>]_vars

(***************************************************************************)
(* Calls of DICT.find_words_from_letters(available, min_length,            *)
(* max_length) for the multisets of up to MaxAvail letters.  The caller's  *)
(* counter is the Counter of letters; line 83 hands a copy of it to        *)
(* _search.                                                                *)
(***************************************************************************)
FindLetters == {"A", "C", "D", "T"}

\* the available letters, each multiset once (as its sorted sequence)
AvailPool ==
  {s \in UNION {[1..n -> FindLetters] : n \in 0..MaxAvail} :
      \A i \in 1..(Len(s) - 1) : Ord(s[i]) <= Ord(s[i + 1])}

InitFind ==
  /\ Fresh
  /\ pc = "idle"
  /\ letters \in AvailPool

\* one call; has_max tells whether max_length is given (as an int) or left
\* at its default None, which line 68 treats as it treats 0
FindWords ==
  /\ \E min_length \in 0..MaxAvail, max_length \in 0..MaxAvail,
        has_max \in BOOLEAN :
        /\ has_max \/ max_length = 0
        /\ found' = find_words_from_letters(DICT, Counter(letters),
                                            min_length, max_length)
        /\ ret' = [min_length |-> min_length, max_length |-> max_length,
                   has_max |-> has_max]
  /\ op' = "find"
  /\ UNCHANGED << cells, placed_words, before, svars, incr >>

NextFind == FindWords

SpecFind == InitFind /\ [][NextFind]_vars

(***************************************************************************)
(* C24.  find_words_from_letters(available, min_len, max_len) returns      *)
(* exactly the dictionary words w with min_len <= |w| <= max_len whose     *)
(* letters are contained in available as a multiset, each once, and leaves *)
(* available as it was.  (Without max_len there is no upper limit.)        *)
(***************************************************************************)
\* the letters of w are among the letters of avail, counted
ContainedIn(w, avail) ==
  \A ch \in AlphaSet : CountIn(w, ch) <= CountIn(avail, ch)

\* the words the claim names for the call args with the letters avail
WordsWithin(avail, args) ==
  {w \in WordSet :
      /\ args.min_length <= Len(w)
      /\ args.has_max => Len(w) <= args.max_length
      /\ ContainedIn(w, avail)}

C24_ExactlyTheWordsWithin ==
  [][op' = "find"
        => /\ \A i, j \in 1..Len(found') : i < j => found'[i] # found'[j]
           /\ {found'[i] : i \in 1..Len(found')} = WordsWithin(letters, ret')
           /\ letters' = letters]_vars

(***************************************************************************)
(* A Dictionary built by calls of _insert and asked by calls of            *)
(* is_valid_word.  found lists the words inserted so far, ret is the       *)
(* Dictionary object once a word has been inserted, and before is the last *)
(* query with its answer.                                                  *)
(***************************************************************************)
\* the words inserted: upper-case, as load makes them
InsertPool ==
  UNION {[1..n -> {"A", "T"}] : n \in 1..2}

\* the strings asked for, in either case
QueryPool ==
  UNION {[1..n -> {"A", "T", "a", "t"}] : n \in 0..2}

\* the Dictionary object: Dictionary() until the first insert
TheDict == IF ret = None THEN Dictionary ELSE ret

Insert ==
  /\ Len(found) < MaxInserts
  /\ \E word \in InsertPool :
        /\ ret' = _insert(TheDict, word)
        /\ found' = Append(found, word)
  /\ op' = "insert"
  /\ UNCHANGED << cells, placed_words, before, svars, incr >>

Query ==
  /\ \E word \in QueryPool :
        before' = [word |-> word, valid |-> is_valid_word(TheDict, word)]
  /\ op' = "query"
  /\ UNCHANGED << cells, placed_words, ret, found, svars, incr >>

NextDict == Insert \/ Query

SpecDict == Init /\ [][NextDict]_vars

(***************************************************************************)
(* C25.  After any sequence of inserts is_valid_word(s) is true if and     *)
(* only if s.upper() was inserted as a whole word: a proper prefix of an   *)
(* inserted word is rejected unless it was inserted itself, and inserting  *)
(* a word again changes neither the accepted strings nor the word count,   *)
(* which is the number of different words inserted.                        *)
(***************************************************************************)
Inserted == {found[i] : i \in 1..Len(found)}

UpperWord(word) == [i \in 1..Len(word) |-> Upper(word[i])]

Accepted == {s \in QueryPool : is_valid_word(TheDict, s)}

C25_ValidIffUpperInserted ==
  [][/\ op' = "query"
           => (before'.valid <=> UpperWord(before'.word) \in Inserted)
     /\ op' = "insert"
           => /\ TheDict'.word_count = Cardinality(Inserted')
              /\ Inserted' = Inserted
                    => /\ Accepted' = Accepted
                       /\ TheDict'.word_count = TheDict.word_count]_vars

\* the claim as it is worded: s itself was inserted
C25_ValidIffInserted ==
  op = "query" => (before.valid <=> before.word \in Inserted)

\* AT was inserted twice and counted once; its proper prefix A is rejected
C25_Witness ==
  /\ op = "query"
  /\ found = << << "A", "T" >>, << "A", "T" >> >>
  /\ TheDict.word_count = 1
  /\ before = [word |-> << "A" >>, valid |-> FALSE]

RECURSIVE SortedLetters(_)
\* sorted(seq) for a sequence of upper-case letters
SortedLetters(seq) ==
  IF seq = << >> THEN << >>
  ELSE LET rest == SortedLetters(Tail(seq))
           k == Cardinality({i \in 1..Len(rest) :
                               Ord(rest[i]) < Ord(Head(seq))})
       IN SubSeq(rest, 1, k) \o << Head(seq) >>
             \o SubSeq(rest, k + 1, Len(rest))

RECURSIVE Elements(_, _, _)
\* c.elements() for the counter c whose keys came in the order of hand: each
\* key as often as it counts, the keys that count 0 or less left out
Elements(c, hand, i) ==
  IF i > Len(hand) THEN << >>
  ELSE (IF \E j \in 1..(i - 1) : hand[j] = hand[i]
        THEN << >>
        ELSE [n \in 1..(IF c[hand[i]] > 0 THEN c[hand[i]] ELSE 0)
                |-> hand[i]])
       \o Elements(c, hand, i + 1)

PosLess(a, b) == a[1] < b[1] \/ (a[1] = b[1] /\ a[2] < b[2])

RECURSIVE SortedCells(_)
\* sorted(grid.cells.items()) as the list of lines 116-119
SortedCells(c) ==
  IF c = << >> THEN << >>
  ELSE LET rest == SortedCells(Tail(c))
           k == Cardinality({i \in 1..Len(rest) :
                               PosLess(<< rest[i].row, rest[i].col >>,
                                       Head(c).pos)})
           item == [row |-> Head(c).pos[1], col |-> Head(c).pos[2],
                    letter |-> Head(c).ch]
       IN SubSeq(rest, 1, k) \o << item >> \o SubSeq(rest, k + 1, Len(rest))

\* grid.bounds()
bounds(c) ==
  IF is_empty(c)
  THEN [min_row |-> 0, max_row |-> 0, min_col |-> 0, max_col |-> 0]
  ELSE LET rows == {c[i].pos[1] : i \in 1..Len(c)}
           cols == {c[i].pos[2] : i \in 1..Len(c)}
       IN [min_row |-> CHOOSE r \in rows : \A x \in rows : r <= x,
           max_row |-> CHOOSE r \in rows : \A x \in rows : x <= r,
           min_col |-> CHOOSE r \in cols : \A x \in cols : r <= x,
           max_col |-> CHOOSE r \in cols : \A x \in cols : x <= r]

\* lines 133-139 with the board left out of the count
unplaced_WholeHand(c, all_letters, given) ==
  IF given /\ all_letters # << >>
  THEN SortedLetters(Elements(Counter(all_letters), all_letters, 1))
  ELSE << >>

\* lines 133-139: given is FALSE for all_letters=None
unplaced(c, all_letters, given) ==
  IF given /\ all_letters # << >>
  THEN LET hand == Counter(all_letters)
           on_grid == Counter([i \in 1..Len(c) |-> c[i].ch])
           remaining == [ch \in AlphaSet |->
                           IF hand[ch] > on_grid[ch]
                           THEN hand[ch] - on_grid[ch] ELSE 0]
       IN SortedLetters(Elements(remaining, all_letters, 1))
  ELSE << >>

grid_to_json(c, pw, all_letters, given) ==
  [cells |-> SortedCells(c),
   bounds |-> bounds(c),
   words |-> [i \in 1..Len(pw) |->
                [word |-> pw[i].word, row |-> pw[i].row, col |-> pw[i].col,
                 direction |-> pw[i].direction]],
   letter_count |-> letter_count(c),
   total_letters |-> IF given /\ all_letters # << >>
                     THEN Len(all_letters) ELSE letter_count(c),
   unplaced |-> unplaced(c, all_letters, given)]

\* the hands given to grid_to_json
JsonHands == UNION {[1..n -> FindLetters] : n \in 0..MaxAvail}

\* ret = grid_to_json(grid, all_letters) for a board of words at the origin;
\* before keeps the second argument.  The call leaves the grid as it is, so
\* a call that follows another one is not looked at.
ToJson ==
  /\ op # "json"
  /\ \E all_letters \in JsonHands, given \in BOOLEAN :
        /\ given \/ all_letters = << >>
        /\ ret' = grid_to_json(cells, placed_words, all_letters, given)
        /\ before' = [all_letters |-> all_letters, given |-> given]
  /\ op' = "json"
  /\ UNCHANGED << cells, placed_words, found, svars, incr >>

NextJson == PlaceTwin \/ ToJson

SpecJson == Init /\ [][NextJson]_vars

(***************************************************************************)
(* C27.  grid_to_json reports as unplaced the multiset difference of the   *)
(* hand and the letters on the board, sorted: nothing when every letter of *)
(* the hand is on the board, the whole hand when the board is empty, and   *)
(* an empty list when no hand is given.                                    *)
(***************************************************************************)
\* how often ch is on the board
TimesOnBoard(ch) == Cardinality({i \in 1..Len(cells) : cells[i].ch = ch})

C27_UnplacedIsHandMinusBoard ==
  op = "json"
     => /\ ~before.given => ret.unplaced = << >>
        /\ before.given
              => /\ \A ch \in AlphaSet :
                       /\ CountIn(before.all_letters, ch) >= TimesOnBoard(ch)
                             => CountIn(ret.unplaced, ch)
                                   = CountIn(before.all_letters, ch)
                                        - TimesOnBoard(ch)
                       /\ CountIn(before.all_letters, ch) < TimesOnBoard(ch)
                             => CountIn(ret.unplaced, ch) = 0
                 /\ \A i \in 1..(Len(ret.unplaced) - 1) :
                       Ord(ret.unplaced[i]) <= Ord(ret.unplaced[i + 1])
                 /\ (\A ch \in AlphaSet :
                        CountIn(before.all_letters, ch) <= TimesOnBoard(ch))
                       => ret.unplaced = << >>
                 /\ (is_empty(cells) /\ before.all_letters # << >>)
                       => /\ Len(ret.unplaced) = Len(before.all_letters)
                          /\ \A ch \in AlphaSet :
                                CountIn(ret.unplaced, ch)
                                   = CountIn(before.all_letters, ch)

\* the hand T, C, A with AT on the board: C is unplaced; a second letter of
\* the board is not in the hand
C27_Witness ==
  /\ op = "json"
  /\ before = [all_letters |-> << "T", "C", "A" >>, given |-> TRUE]
  /\ CellMap(cells) = {<< << 0, 0 >>, "A" >>, << << 0, 1 >>, "T" >>}
  /\ ret.unplaced = << "C" >>
  /\ ret.total_letters = 3
  /\ ret.letter_count = 2

(***************************************************************************)
(* C28.  In every board made by successful placements, for every record of *)
(* the placement sequence the cell before its anchor and the cell after    *)
(* its last letter, along its axis, are unoccupied.                        *)
(***************************************************************************)
C28_RecordEndsFree ==
  \A i \in 1..Len(placed_words) :
     BeforeAfterFree(cells, placed_words[i].word, placed_words[i].row,
                     placed_words[i].col, placed_words[i].direction)

(***************************************************************************)
(* C29.  _partial_restructure tries the removal depths 1, 2, 3 in this     *)
(* order and never a depth above the number of records.  A depth removes   *)
(* the records placed last, the last one first.  Every depth starts from a *)
(* board whose cells are the cells of the input board, and a depth whose   *)
(* search does not place all its letters puts these cells back before the  *)
(* next depth is tried.                                                    *)
(***************************************************************************)
RECURSIVE FreedInReverse(_, _, _)
\* the letters of the cells added by the records i, i - 1, ..., lowest of pw
FreedInReverse(c, pw, i) ==
  IF i < 1 \/ i <= Len(pw) - incr.n_remove THEN << >>
  ELSE [k \in 1..Len(pw[i].cells_added) |-> CellAt(c, pw[i].cells_added[k])]
          \o FreedInReverse(c, pw, i - 1)

\* a step that begins a depth: the removals are done and _bt is called
DepthBegins == incr.ipc = "pr_loop" /\ incr'.ipc = "bt_enter"

\* a step that ends a depth whose search has returned False
DepthFails == incr.ipc = "bt_ret" /\ incr'.ipc = "pr_loop"

C29_DepthsInOrderFromInputCells ==
  [][/\ (incr.ipc = "after_qa" /\ incr'.ipc = "pr_loop")
           => incr'.n_remove = 1
     /\ incr'.n_remove # incr.n_remove
           => \/ incr.ipc = "after_qa" /\ incr'.n_remove = 1
              \/ DepthFails /\ incr'.n_remove = incr.n_remove + 1
              \/ incr.ipc = "idle"
     /\ DepthBegins
           => /\ incr.n_remove \in 1..3
              /\ incr.n_remove <= Len(placed_words)
              /\ cells = incr.input.cells
              /\ placed_words'
                    = SubSeq(placed_words, 1,
                             Len(placed_words) - incr.n_remove)
              /\ incr'.letters_to_place
                    = Append(FreedInReverse(cells, placed_words,
                                            Len(placed_words)),
                             incr.new_letter)
              /\ CellMap(cells')
                    = {x \in CellMap(cells) :
                         \A i \in (Len(placed_words) - incr.n_remove + 1)
                                     ..Len(placed_words) :
                            \A k \in 1..Len(placed_words[i].cells_added) :
                               placed_words[i].cells_added[k] # x[1]}
     /\ DepthFails
           => /\ ~retval
              /\ cells' = incr.input.cells
              /\ Len(placed_words') = Len(incr.input.placed_words)]_vars

\* the third depth of a board of three records begins: the board is empty,
\* the letters are freed from the last record to the first
C29_Witness ==
  /\ incr.ipc = "bt_enter"
  /\ incr.n_remove = 3
  /\ Len(incr.input.placed_words) = 3
  /\ cells = << >>
  /\ placed_words = << >>
  /\ incr.snapshot.cells = incr.input.cells
  /\ incr.letters_to_place = << "A", "H", "C", "A", "T", "Q" >>

(***************************************************************************)
(* C30.  Whenever _partial_restructure succeeds, every freed letter and    *)
(* the new letter have been placed again and nothing else was added: the   *)
(* letters of the board it returns are the letters of the input board and  *)
(* one more occurrence of the new letter.                                  *)
(***************************************************************************)
\* the entries of the log for a _partial_restructure that returned a grid
RestructureSucceeded(e) ==
  e.strategy = "partial_restructure" /\ e.result # None

C30_RestructureKeepsLetters ==
  \A i \in 1..Len(incr.log) :
     RestructureSucceeded(incr.log[i])
        => Counter(CellLetters(incr.log[i].result.cells))
              = Counter(Append(CellLetters(incr.input.cells),
                               incr.new_letter))

\* a _partial_restructure that returned a grid after it had taken a record
\* of the input board away and placed its letters again
C30_Witness ==
  /\ incr.ipc = "returned"
  /\ incr.strategy = "partial_restructure"
  /\ RestructureSucceeded(incr.log[2])
  /\ incr.input.placed_words # << >>
  /\ \A k \in 1..Len(incr.out.placed_words) :
        incr.out.placed_words[k].id \notin RecordIds(incr.input.placed_words)
  /\ letter_count(incr.out.cells) = letter_count(incr.input.cells) + 1

(***************************************************************************)
(* Speculative placements and their undo, in solve and in _mini_backtrack. *)
(***************************************************************************)
\* the runs of solve and the runs of incremental_solve together
InitSearch == InitSolve \/ InitIncr

SpecSearch == InitSearch /\ [][NextIncr]_vars

\* the innermost call that is active before and after a step (0: none)
Persisting == IF Len(stack) < Len(stack') THEN Len(stack) ELSE Len(stack')

\* the number of records this call was entered with
KeptCount == IF Persisting = 0 THEN 0 ELSE stack[Persisting].entry.count

\* the grid after the step is the one the innermost call was entered with
BoardAsAtEntry ==
  /\ CellMap(cells') = CellMap(Top.entry.cells)
  /\ Len(placed_words') = Top.entry.count

\* C31: when a call of _backtrack or of _bt returns False (depth cap, timeout,
\* nothing left to try), the cells and the sequence of records are those the
\* call was entered with: the cells and the number of records are the same,
\* and no step taken while a call is active touches a record that was there
\* when the call was entered (a call is entered with at least the records
\* its caller was entered with).  After a first word that failed the grid
\* is empty.
C31_FailureRestoresBoard ==
  [][/\ (pc' = "ret" /\ pc # "ret" /\ ~retval') => BoardAsAtEntry
     /\ (incr'.ipc = "bt_ret" /\ incr.ipc # "bt_ret" /\ ~retval')
           => BoardAsAtEntry
     /\ \E n \in {KeptCount} :
           /\ Len(placed_words) >= n
           /\ Len(placed_words') >= n
           /\ \A i \in 1..n : placed_words'[i] = placed_words[i]
     /\ (Len(stack') > Len(stack) /\ stack # << >>)
           => stack'[Len(stack')].entry.count >= Top.entry.count
     /\ (pc \in {"first", "ret"} /\ pc' \in {"first", "finish"})
           => cells' = << >> /\ placed_words' = << >>]_vars

\* a call entered below the depth cap with two records on the board has
\* returned False at the cap, and the board is as it was entered
C31_Witness ==
  /\ pc = "ret" /\ ~retval /\ line = 55
  /\ Top.entry.count >= 2
  /\ Len(placed_words) = Top.entry.count
  /\ CellMap(cells) = CellMap(Top.entry.cells)

(***************************************************************************)
(* The best snapshot of solve.                                             *)
(***************************************************************************)
\* a _backtrack call gets past the checks of lines 54-57
Proceeds ==
  /\ pc = "enter"
  /\ iterations' = iterations + 1
  /\ line' \notin {55, 57}

\* C32: best_placed never decreases; best_grid is replaced only by a copy of
\* a board with more letters than best_placed, which becomes that number;
\* every board a _backtrack call gets past its first checks with has at most
\* best_placed letters from then on; and a partial result (line 137) has
\* best_placed letters, so at least as many as each of those boards.
C32_BestIsHighWaterMark ==
  [][/\ best_placed' >= best_placed
     /\ best_grid' # best_grid
           => /\ letter_count(cells) > best_placed
              /\ best_placed' = letter_count(cells)
              /\ CellMap(best_grid'.cells) = CellMap(cells)
     /\ best_placed' # best_placed => best_grid' # best_grid
     /\ Proceeds => best_placed' >= letter_count(cells)
     /\ (pc' = "done" /\ line' = 137)
           => /\ result' = best_grid
              /\ letter_count(result'.cells) = best_placed]_vars

\* solve has returned a partial result of more letters than its first
\* snapshot had, after the timeout
C32_Witness ==
  /\ pc = "done" /\ line = 137 /\ expired
  /\ letter_count(result.cells) = best_placed
  /\ best_placed > Len(all_words[1])
  /\ best_placed < total_letters

(***************************************************************************)
(* The depth cap of _backtrack.                                            *)
(***************************************************************************)
\* the call that made the innermost one
Caller == stack[Len(stack) - 1]

\* C33: a _backtrack call entered at a depth above MaxDepth returns False
\* and leaves the grid, the best snapshot and the frames as they are; its
\* caller then removes the record it had placed (the last of the sequence,
\* with the cells it added) and goes on with its next placement, as after
\* every call that returned False: solve does not end there.
C33_DepthCapIsAFailedBranch ==
  [][/\ (pc = "enter" /\ Top.depth > MaxDepth /\ iterations' # iterations)
           => /\ pc' = "ret" /\ ~retval' /\ line' = 55
              /\ UNCHANGED << cells, placed_words, stack, best_grid,
                              best_placed >>
     /\ (pc = "ret" /\ ~retval /\ Len(stack) > 1 /\ stack' # stack)
           => /\ pc' = "loop"
              /\ placed_words # << >>
              /\ placed_words[Len(placed_words)] = Caller.placed
              /\ placed_words'
                    = SubSeq(placed_words, 1, Len(placed_words) - 1)
              /\ CellPositions(cells')
                    = CellPositions(cells)
                         \ {Caller.placed.cells_added[i] :
                               i \in 1..Len(Caller.placed.cells_added)}
              /\ \A i \in 1..Len(cells') : Has(cells, cells'[i].pos)
                    /\ CellAt(cells, cells'[i].pos) = cells'[i].ch
              /\ stack' = Append(SubSeq(stack, 1, Len(stack) - 2),
                                 [Caller EXCEPT !.pi = @ + 1])]_vars

\* the call at depth MaxDepth goes on with a later placement after a call at
\* depth MaxDepth + 1 was cut off
C33_Witness ==
  /\ pc = "loop" /\ line = 110
  /\ Top.depth = MaxDepth
  /\ Top.pi > 1

(***************************************************************************)
(* What get_valid_placements returns.                                      *)
(***************************************************************************)
\* the anchors from which a word can reach a cell of the board: the cells
\* lie between -MaxCoord and MaxCoord + LongestWord - 1, and a word that
\* meets one starts at most LongestWord - 1 cells before it
Anchors == (0 - MaxCoord - LongestWord + 1)..(MaxCoord + LongestWord - 1)

\* the anchors and directions at which place_word accepts the word on the
\* board as it is
AcceptedPairs(word) ==
  {a \in Anchors \X Anchors \X {Directions[1], Directions[2]} :
     place_word(cells, placed_words, word, a[1], a[2], a[3], DICT,
                FreshId(RecordIds(placed_words))).placed # None}

\* C34: get_valid_placements(word) on an empty board returns the one
\* placement (0, 0, ACROSS); on any other board the placements it returns
\* are, as a set, exactly the anchors and directions at which place_word
\* accepts the word on that board.
C34_PlacementsAreTheAccepted ==
  [][op' = "probe"
        => \A word \in PlaceWords :
              Probe(word)
                 => IF is_empty(cells)
                    THEN found' = << << 0, 0, "ACROSS" >> >>
                    ELSE {found'[i] : i \in 1..Len(found')}
                            = AcceptedPairs(word)]_vars

\* a probe of a board of two words returned several placements, and there
\* are anchors within reach of the board that it did not return
C34_Witness ==
  /\ op = "probe"
  /\ Len(before.placed_words) >= 2
  /\ Cardinality({found[i] : i \in 1..Len(found)}) >= 2
  /\ \E i \in 1..Len(found) : found[i][3] = "DOWN"
  /\ \E i \in 1..Len(found) : found[i][3] = "ACROSS"

(***************************************************************************)
(* The order of the candidates.  A dictionary is loaded with the same      *)
(* words in some order, the words of a hand are found in it (in the order  *)
(* of the trie, which is the order of insertion) and sorted as lines 27-28 *)
(* and 75-96 of solver.py do.                                              *)
(*   ret     the order in which the words were inserted                    *)
(*   before  the candidates as find_words_from_letters returned them       *)
(*   found   the candidates as _sort_candidates returned them              *)
(***************************************************************************)
\* the words of the dictionary: two pairs with the same difficulty and
\* length, and a longer word
SortWords ==
  << << "C", "A", "T" >>, << "A", "T" >>, << "T", "A" >>, << "A", "H" >>,
     << "H", "A" >> >>

\* the orders in which they can be inserted
InsertionOrders ==
  {[i \in 1..Len(SortWords) |-> SortWords[pi[i]]] :
     pi \in {f \in [1..Len(SortWords) -> 1..Len(SortWords)] :
               \A i, j \in 1..Len(SortWords) : f[i] = f[j] => i = j}}

InitSort == Fresh /\ pc = "idle" /\ letters \in Hands

SortCandidates ==
  /\ op # "sort"
  /\ \E order \in InsertionOrders :
        \E words \in {find_words_from_letters(
                         InsertAll(Dictionary, order, 1), letter_counts,
                         2, 0)} :
           /\ ret' = order
           /\ before' = words
           /\ found' = _sort_candidates(words)
  /\ op' = "sort"
  /\ UNCHANGED << cells, placed_words, svars, incr >>

NextSort == SortCandidates

SpecSort == InitSort /\ [][NextSort]_vars

\* a comes before b in lexical order: a is a proper prefix of b, or the
\* first letter in which they differ is earlier in the alphabet in a
LexBefore(a, b) ==
  \E k \in 1..(Len(b)) :
     /\ \A i \in 1..(k - 1) : i <= Len(a) /\ a[i] = b[i]
     /\ \/ k = Len(a) + 1
        \/ k <= Len(a) /\ Ord(a[k]) < Ord(b[k])

\* a comes before b in the order of the heuristic
Precedes(a, b) ==
  \/ _word_difficulty(a) > _word_difficulty(b)
  \/ /\ _word_difficulty(a) = _word_difficulty(b)
     /\ \/ Len(a) > Len(b)
        \/ Len(a) = Len(b) /\ LexBefore(a, b)

Elems(s) == {s[i] : i \in 1..Len(s)}

\* C35: of two different candidates exactly one precedes the other (greater
\* sum of letter difficulties, then greater length, then lexical order); the
\* sorted list holds the candidates that were found, each once, every one
\* preceding the next; and it is the list that the same hand gives with the
\* words inserted in the order of SortWords.
C35_CandidateOrder ==
  op = "sort"
     => /\ \A a, b \in Elems(before) :
              a # b => (Precedes(a, b) <=> ~Precedes(b, a))
        /\ Elems(found) = Elems(before)
        /\ Len(found) = Len(before)
        /\ \A i \in 1..(Len(found) - 1) : Precedes(found[i], found[i + 1])
        /\ found = _sort_candidates(
                     find_words_from_letters(
                       InsertAll(Dictionary, SortWords, 1), letter_counts,
                       2, 0))

\* the words of a hand were found in another order than the sorted one, in
\* a dictionary loaded in another order than SortWords; AT and TA, equal in
\* difficulty and length, are among them
C35_Witness ==
  /\ op = "sort"
  /\ ret # SortWords
  /\ before # found
  /\ before # find_words_from_letters(InsertAll(Dictionary, SortWords, 1),
                                      letter_counts, 2, 0)
  /\ << "A", "T" >> \in Elems(found) /\ << "T", "A" >> \in Elems(found)
  /\ << "C", "A", "T" >> \in Elems(found)

(***************************************************************************)
(* C36: _quick_attach tries its candidates in the order of the heuristic   *)
(* (sum of letter difficulties descending, then length descending, then    *)
(* lexical order), so that the placement it applies is the first one with  *)
(* one new cell in that order.  Lines 220-225 take the words in the order  *)
(* find_words_from_letters returns them, the order of the trie, and do not *)
(* sort them: this does not hold of the code.                              *)
(***************************************************************************)
C36_QuickAttachInHeuristicOrder ==
  incr.ipc \in {"qa", "qa_place"}
     => Top.candidates = _sort_candidates(Top.candidates)

(***************************************************************************)
(* C37: every placement on which _backtrack calls itself has added a cell, *)
(* so that no call is deeper than the hand has letters.  place_word also   *)
(* accepts a word laid over cells that spell it already (no cell added),   *)
(* get_valid_placements returns such anchors and line 108 recurses on      *)
(* them: this does not hold of the code.                                   *)
(***************************************************************************)
C37_RecursionMakesProgress ==
  /\ \A j \in 1..(Len(stack) - 1) :
        pc # "idle" => stack[j].placed.cells_added # << >>
  /\ (pc \in {"enter", "loop", "ret"} /\ stack # << >>)
        => Top.depth <= total_letters

(***************************************************************************)
(* C38: when the letters of the input board are among those of the hand    *)
(* without the new letter, the board incremental_solve returns has no      *)
(* letter more often than the hand has it.  _quick_attach takes its words  *)
(* from the whole hand and accepts any placement of one new cell, whatever *)
(* letter the cell holds and whether or not that letter is still unplaced: *)
(* this does not hold of the code.                                         *)
(***************************************************************************)
\* the hand without one copy of the new letter
HandBefore ==
  [ch \in AlphaSet |->
     IF ch = incr.new_letter THEN letter_counts[ch] - 1 ELSE letter_counts[ch]]

C38_ReturnedBoardWithinHand ==
  (/\ incr.ipc = "returned"
   /\ \A ch \in AlphaSet :
         Counter(CellLetters(incr.input.cells))[ch] <= HandBefore[ch])
     => \A ch \in AlphaSet :
           Counter(CellLetters(incr.out.cells))[ch] <= letter_counts[ch]

(***************************************************************************)
(* C39: the board incremental_solve returns holds at least as many letters *)
(* as the board it was called with, and more of them whenever the strategy *)
(* is not failed.  _full_resolve returns whatever solve returns, and solve *)
(* returns its best partial board when it finds no complete one: this does *)
(* not hold of the code.                                                   *)
(***************************************************************************)
C39_NeverLosesLetters ==
  incr.ipc = "returned"
     => /\ letter_count(incr.out.cells) >= letter_count(incr.input.cells)
        /\ incr.strategy # "failed"
              => letter_count(incr.out.cells) > letter_count(incr.input.cells)

(***************************************************************************)
(* C40: on every board made by successful place_word calls and removals of *)
(* the most recent record, the cells_added lists of the records are        *)
(* pairwise disjoint (and none lists a cell twice), together they are      *)
(* exactly the occupied cells, and the cells along the path of every       *)
(* record hold the letters of its word.                                    *)
(***************************************************************************)
\* the coordinates a record listed as newly added
AddedBy(rec) == {rec.cells_added[k] : k \in 1..Len(rec.cells_added)}

\* the cell of the i-th letter of a record
PathCell(rec, i) ==
  << rec.row + (i - 1) * DirValue(rec.direction)[1],
     rec.col + (i - 1) * DirValue(rec.direction)[2] >>

C40_RecordsAccountForCells ==
  /\ \A i \in 1..Len(placed_words) :
        /\ Cardinality(AddedBy(placed_words[i]))
              = Len(placed_words[i].cells_added)
        /\ \A j \in 1..Len(placed_words) :
              i # j => AddedBy(placed_words[i]) \cap AddedBy(placed_words[j]) = {}
  /\ UNION {AddedBy(placed_words[i]) : i \in 1..Len(placed_words)}
        = {cells[k].pos : k \in 1..Len(cells)}
  /\ \A k \in 1..Len(cells), m \in 1..Len(cells) :
        cells[k].pos = cells[m].pos => k = m
  /\ \A i \in 1..Len(placed_words) :
        \A n \in 1..Len(placed_words[i].word) :
           /\ Has(cells, PathCell(placed_words[i], n))
           /\ CellAt(cells, PathCell(placed_words[i], n))
                 = placed_words[i].word[n]

\* the most recent record has been removed from a board that keeps a record
\* which crossed an earlier word (it added some of its cells, not all) and
\* a record which added no cell at all
C40_Witness ==
  /\ op = "remove"
  /\ Len(placed_words) >= 2
  /\ \E i \in 1..Len(placed_words) :
        /\ placed_words[i].cells_added # << >>
        /\ Len(placed_words[i].cells_added) < Len(placed_words[i].word)
  /\ ret.placed.cells_added = << >>
====
